---- MODULE Spec2Model ----
(***************************************************************************)
(* A model of the Secret Santa application (cmsgraham/secret-santa):       *)
(* the event lifecycle and the draw of app_v2.py over the tables of        *)
(* models.py, the magic-link tokens, the feed, and the legacy draw of      *)
(* app.py.                                                                 *)
(*                                                                         *)
(* A request handler runs to completion inside one database transaction,   *)
(* so in the sequential specifications one action is one request.  The     *)
(* specifications SpecDrawRace, SpecVerifyRace and SpecRegisterRace split  *)
(* a handler at its database reads and its commit, which is where two      *)
(* requests interleave.  SpecLoop follows the shuffle loops of the two     *)
(* draws one attempt at a time; SpecGuess adds the guesses of the member   *)
(* page and SpecSession the session keys that the routes write.            *)
(***************************************************************************)
EXTENDS Integers, Sequences, FiniteSets, TLC

\* ------------------------------------------------------------------ bounds
\* Participant ids are fresh uuids; the model hands out 1..MaxPid.
MaxPid == 4
\* Committed draws per behaviour (each draw creates a fresh batch of rows).
MaxDraws == 2
\* The clock of the event lifecycle counts hours from 0 to MaxTime.
MaxTime == 1
\* The clock of the magic links counts hours from 0 to MaxAuthTime.
MaxAuthTime == 2
\* Tokens issued per behaviour.
MaxTokens == 2
\* The largest max_participants of the event that is filled up.
MaxLimit == 2
\* Rows in the three feed tables together.
MaxFeedRows == 2

\* Participants of an event handed to the draw on its own.
MaxN == 4
\* Addresses of a list handed to the legacy draw.
MaxLegacyLen == 4

\* The participants, and the addresses, handed to a loop that is followed
\* attempt by attempt.
MaxLoopLen == 3

\* ------------------------------------------------------- program constants
\* Event.min_participants, the column default.
DEFAULT_MIN_PARTICIPANTS == 3
\* Event.max_participants, the column default.
DEFAULT_MAX_PARTICIPANTS == 100
\* max_attempts of create_secret_santa_assignments in app_v2.py.
max_attempts == 100
\* timedelta(hours=1) of create_magic_link_token, in hours.
TOKEN_LIFETIME == 1
\* max_attempts of create_secret_santa_assignments in app.py.
legacy_max_attempts == 1000

NULL == "NULL"

REGISTRATION_OPEN == "registration_open"
DRAW_COMPLETED == "draw_completed"
EVENT_CLOSED == "event_closed"
EventStatus == {REGISTRATION_OPEN, DRAW_COMPLETED, EVENT_CLOSED}

\* The rows of the users table: both users have logged in before.
Users == {"u1", "u2"}
UserEmail == [u \in Users |-> IF u = "u1" THEN "a@x" ELSE "b@x"]
\* The addresses a registration form may carry (after normalisation).
Emails == {"a@x", "b@x", "c@x"}
\* Event codes of the lifecycle specification.
Codes == {"E1"}

VARIABLES
    events,        \* code -> row of the events table
    participants,  \* participant id -> row of the participants table
    assignments,   \* set of rows of the assignments table
    nextPid,       \* participant ids handed out so far
    draws,         \* batches of assignment rows created so far
    now,           \* the clock
    resp,          \* the last request and its answer
    legacy,        \* the call of app.py's create_secret_santa_assignments
    auth_tokens,   \* token -> row of the auth_tokens table
    session,       \* browser -> the keys of its Flask session
    req,           \* request in flight -> where it is and what it has read
    feed           \* the rows of feed_posts, feed_comments and feed_likes

vars == <<events, participants, assignments, nextPid, draws, now, resp,
          legacy, auth_tokens, session, req, feed>>

\* What the handlers of the event lifecycle never touch.
beyondEvents == <<legacy, auth_tokens, session, req, feed>>

\* The browsers that send requests, and the requests that can be in flight
\* at the same time.
Clients == {"c1", "c2"}
Slots == {"r1", "r2"}

\* No call of the legacy function, nobody logged in, no request in flight.
LegacyIdle == [pc |-> "idle", emails |-> <<>>, rows |-> <<>>, raised |-> ""]
NoSessions == [c \in Clients |-> [user_id |-> NULL, user_email |-> NULL,
                                  participant_id |-> NULL,
                                  participant_email |-> NULL]]
NoRequests == [r \in Slots |-> [pc |-> "idle"]]

\* No post, no comment, no like.
NoFeed == [posts |-> {}, comments |-> {}, likes |-> {}]

\* ------------------------------------------------------------- the tables
\* No participant: session.get('participant_id') when the key is absent, a
\* guessed_secret_santa_id that was never set.  The ids of the participants
\* start at 1.
NO_ID == 0

\* Participant(event_id=..., email=...) (models.py:90-110): a new row has no
\* guess.
Participant(e, email) ==
    [event_id |-> e, email |-> email, guessed_secret_santa_id |-> NO_ID]

\* Event.participants (models.py:65): the participants of event e, as ids.
ParticipantIds(e) == {p \in DOMAIN participants : participants[p].event_id = e}

\* Event.assignments (models.py:66): the assignment rows of event e.
EventAssignments(e) == {a \in assignments : a.event_id = e}

\* Event.participant_count (models.py:71-73).
participant_count(e) == Cardinality(ParticipantIds(e))

\* A faulty variant of can_run_draw: the status is not looked at.
can_run_draw_no_status(e) == participant_count(e) >= events[e].min_participants

\* Event.can_run_draw (models.py:75-80).
can_run_draw(e) ==
    /\ events[e].status = REGISTRATION_OPEN
    /\ participant_count(e) >= events[e].min_participants

\* list(event.participants) (app_v2.py:209): the rows in insertion order,
\* which is the order of the ids the model hands out.
RECURSIVE AsList(_)
AsList(S) ==
    IF S = {} THEN <<>>
    ELSE LET m == CHOOSE x \in S : \A y \in S : x <= y
         IN  <<m>> \o AsList(S \ {m})

\* ---------------------------------------------------------------- the draw
\* random.shuffle(receivers) (app_v2.py:224): every ordering of the list
\* is a possible result.
Shuffles(list) ==
    LET n == Len(list)
        perms == {p \in [1..n -> 1..n] : \A i, j \in 1..n : p[i] = p[j] => i = j}
    IN  {[i \in 1..n |-> list[p[i]]] : p \in perms}

\* A faulty variant of SelfFree: allow_self_assignment is not looked at.
SelfFree_ignores_allow(allow_self, givers, receivers) ==
    \A i \in 1..Len(givers) : givers[i] # receivers[i]

\* A faulty variant of SelfFree: the last position is not compared.
SelfFree_skip_last(allow_self, givers, receivers) ==
    \A i \in 1..(Len(givers) - 1) :
        ~(~allow_self /\ givers[i] = receivers[i])

\* The check of one shuffle (app_v2.py:226-231): valid stays True unless a
\* giver got themselves and the event does not allow it.
SelfFree(allow_self, givers, receivers) ==
    \A i \in 1..Len(givers) :
        ~(~allow_self /\ givers[i] = receivers[i])

\* The loop "for attempt in range(max_attempts)" (app_v2.py:222-250).
\* good and bad are the valid and the invalid shuffles.  Attempt number k
\* is reached when the k shuffles before it were invalid; it returns with
\* the receivers it shuffled when they are valid.  ValueError is raised
\* when all max_attempts shuffles were invalid.
Attempts(good, bad) ==
    LET reached == {k \in 0..(max_attempts - 1) : k = 0 \/ bad # {}}
    IN  {[ok |-> TRUE, receivers |-> r] : r \in good, k \in reached}
        \cup (IF max_attempts = 0 \/ bad # {}
              THEN {[ok |-> FALSE, receivers |-> <<>>]} ELSE {})

\* What the loop of create_secret_santa_assignments can end with.
DrawOutcomesOf(allow_self, givers) ==
    LET all == Shuffles(givers)
        good == {r \in all : SelfFree(allow_self, givers, r)}
    IN  Attempts(good, all \ good)

\* The same for the participants of e as the table holds them.
DrawOutcomes(e) ==
    DrawOutcomesOf(events[e].allow_self_assignment, AsList(ParticipantIds(e)))

\* A faulty variant of ClearExisting: the old rows are kept.
ClearExisting_keep(e) == assignments

\* "Clear existing assignments" (app_v2.py:214-216): the rows of the table
\* as the session sees them once every row of the event is marked deleted.
ClearExisting(e) == {a \in assignments : a.event_id # e}

\* A faulty variant of NewAssignments: every row names the first receiver.
NewAssignments_first_receiver(e, givers, receivers, batch) ==
    {[id |-> <<batch, i>>, event_id |-> e,
      giver_id |-> givers[i], receiver_id |-> receivers[1]] : i \in 1..Len(givers)}

\* "Create assignments" (app_v2.py:234-241): one row per giver; the row id
\* is a fresh uuid, here the batch number and the position.
NewAssignments(e, givers, receivers, batch) ==
    {[id |-> <<batch, i>>, event_id |-> e,
      giver_id |-> givers[i], receiver_id |-> receivers[i]] : i \in 1..Len(givers)}

\* A faulty variant of Uncommitted: the pending deletes reach the table.
Uncommitted_flushed(e) == ClearExisting(e)

\* The table after create_secret_santa_assignments raised: run_draw's
\* except branch (app_v2.py:519-520) answers without a commit, and the
\* session, with its pending deletes, is discarded with the request.
Uncommitted(e) == assignments

\* ------------------------------------------------------------ the requests
\* The answer of a handler: which handler, for which event, which HTTP
\* status, and which error where the claims tell errors apart.
AnswerErr(op, e, http, error) ==
    [op |-> op, code |-> e, http |-> http, error |-> error]
Answer(op, e, http) == AnswerErr(op, e, http, "")

\* The two ValueErrors of create_secret_santa_assignments
\* (app_v2.py:212 and app_v2.py:250).
NEED_AT_LEAST == "Need at least min_participants participants"
COULD_NOT_CREATE == "Could not create valid assignments after multiple attempts"

\* A faulty variant of NewEvent: the event starts with the draw completed.
NewEvent_drawn(u) ==
    [organizer_id |-> u, status |-> DRAW_COMPLETED,
     draw_date |-> NULL, closed_at |-> NULL,
     allow_self_assignment |-> FALSE,
     min_participants |-> DEFAULT_MIN_PARTICIPANTS,
     max_participants |-> DEFAULT_MAX_PARTICIPANTS,
     guessing_enabled |-> FALSE]

\* Event(code, name, description, organizer_id) (app_v2.py:383-388) with the
\* column defaults (models.py:52-61).
NewEvent(u) ==
    [organizer_id |-> u, status |-> REGISTRATION_OPEN,
     draw_date |-> NULL, closed_at |-> NULL,
     allow_self_assignment |-> FALSE,
     min_participants |-> DEFAULT_MIN_PARTICIPANTS,
     max_participants |-> DEFAULT_MAX_PARTICIPANTS,
     guessing_enabled |-> FALSE]

\* create_event, POST (app_v2.py:371-397), by the logged-in user u.
CreateEvent(u, e) ==
    /\ e \notin DOMAIN events
    /\ events' = events @@ (e :> NewEvent(u))
    /\ resp' = Answer("create_event", e, 200)
    /\ UNCHANGED <<participants, assignments, nextPid, draws, now>>
    /\ UNCHANGED beyondEvents

\* A faulty variant of Register: the status of the event is not looked at.
Register_any_status(e, email, wellFormed) ==
    /\ e \in DOMAIN events
    /\ IF \/ participant_count(e) >= events[e].max_participants
          \/ ~wellFormed
          \/ \E p \in ParticipantIds(e) : participants[p].email = email
       THEN /\ resp' = Answer("register", e, 400)
            /\ UNCHANGED <<participants, nextPid>>
       ELSE /\ nextPid < MaxPid
            /\ participants' = participants @@
                   ((nextPid + 1) :> Participant(e, email))
            /\ nextPid' = nextPid + 1
            /\ resp' = Answer("register", e, 200)
    /\ UNCHANGED <<events, assignments, draws, now>>
    /\ UNCHANGED beyondEvents

\* register_participant, POST (app_v2.py:600-672).  wellFormed says whether
\* the name is non-empty and the address passes validate_email.
Register(e, email, wellFormed) ==
    /\ e \in DOMAIN events
    /\ IF \/ events[e].status # REGISTRATION_OPEN
          \/ participant_count(e) >= events[e].max_participants
          \/ ~wellFormed
          \/ \E p \in ParticipantIds(e) : participants[p].email = email
       THEN /\ resp' = Answer("register", e, 400)
            /\ UNCHANGED <<participants, nextPid>>
       ELSE /\ nextPid < MaxPid
            /\ participants' = participants @@
                   ((nextPid + 1) :> Participant(e, email))
            /\ nextPid' = nextPid + 1
            /\ resp' = Answer("register", e, 200)
    /\ UNCHANGED <<events, assignments, draws, now>>
    /\ UNCHANGED beyondEvents

\* join_own_event (app_v2.py:892-938), by the logged-in user u.
Join(u, e) ==
    /\ e \in DOMAIN events
    /\ IF events[e].organizer_id # u
       THEN /\ resp' = Answer("join", e, 403)
            /\ UNCHANGED <<participants, nextPid>>
       ELSE IF \/ events[e].status # REGISTRATION_OPEN
               \/ \E p \in ParticipantIds(e) : participants[p].email = UserEmail[u]
       THEN /\ resp' = Answer("join", e, 400)
            /\ UNCHANGED <<participants, nextPid>>
       ELSE /\ nextPid < MaxPid
            /\ participants' = participants @@
                   ((nextPid + 1) :> Participant(e, UserEmail[u]))
            /\ nextPid' = nextPid + 1
            /\ resp' = Answer("join", e, 200)
    /\ UNCHANGED <<events, assignments, draws, now>>
    /\ UNCHANGED beyondEvents

\* A faulty variant of DeleteRaises: the delete never fails.
DeleteRaises_never(pid) == FALSE

\* The flush of db.session.delete(participant) (app_v2.py:956-957):
\* Participant.giving_to and receiving_from (models.py:121-122) cascade
\* nothing, so the flush sets giver_id / receiver_id of the rows that name
\* the participant to NULL; both columns are nullable=False
\* (models.py:139-140) and the commit raises IntegrityError.
DeleteRaises(pid) ==
    \E a \in assignments : a.giver_id = pid \/ a.receiver_id = pid

\* The foreign key of guessed_secret_santa_id (models.py:109) under the
\* delete of participant pid: PostgreSQL (init_db.py:17) refuses the delete
\* while another row names pid as its guess; SQLite (app_v2.py:37) does not
\* check the key, and the delete goes through.  Both outcomes are kept.
GuessKeyRaises(pid) ==
    \E p \in DOMAIN participants \ {pid} :
        participants[p].guessed_secret_santa_id = pid

\* remove_participant (app_v2.py:940-962), by the logged-in user u.
Remove(u, e, pid) ==
    /\ e \in DOMAIN events
    /\ pid \in ParticipantIds(e)
    /\ IF events[e].organizer_id # u
       THEN /\ resp' = Answer("remove", e, 403)
            /\ UNCHANGED participants
       ELSE IF events[e].status # REGISTRATION_OPEN
       THEN /\ resp' = Answer("remove", e, 400)
            /\ UNCHANGED participants
       ELSE IF DeleteRaises(pid)
       THEN /\ resp' = Answer("remove", e, 500)
            /\ UNCHANGED participants
       ELSE \/ /\ GuessKeyRaises(pid)
               /\ resp' = Answer("remove", e, 500)
               /\ UNCHANGED participants
            \/ /\ participants' =
                      [p \in DOMAIN participants \ {pid} |-> participants[p]]
               /\ resp' = Answer("remove", e, 200)
    /\ UNCHANGED <<events, assignments, nextPid, draws, now>>
    /\ UNCHANGED beyondEvents

\* create_secret_santa_assignments (app_v2.py:204-250), called for the
\* request op: it returns after the commit (the answer is 200) or raises
\* ValueError, which run_draw turns into the answer 500 with the message.
create_secret_santa_assignments(op, e) ==
    IF participant_count(e) < events[e].min_participants
    THEN /\ resp' = AnswerErr(op, e, 500, NEED_AT_LEAST)
         /\ assignments' = Uncommitted(e)
         /\ UNCHANGED <<events, draws>>
    ELSE \E out \in DrawOutcomes(e) :
         IF out.ok
         THEN /\ assignments' = ClearExisting(e) \cup
                    NewAssignments(e, AsList(ParticipantIds(e)),
                                   out.receivers, draws + 1)
              /\ events' = [events EXCEPT ![e].status = DRAW_COMPLETED,
                                          ![e].draw_date = now]
              /\ draws' = draws + 1
              /\ resp' = Answer(op, e, 200)
         ELSE /\ assignments' = Uncommitted(e)
              /\ resp' = AnswerErr(op, e, 500, COULD_NOT_CREATE)
              /\ UNCHANGED <<events, draws>>

\* run_draw (app_v2.py:484-520), by the logged-in user u.
RunDraw(u, e) ==
    /\ e \in DOMAIN events
    /\ draws < MaxDraws
    /\ IF events[e].organizer_id # u
       THEN /\ resp' = Answer("run_draw", e, 403)
            /\ UNCHANGED <<events, assignments, draws>>
       ELSE IF ~can_run_draw(e)
       THEN /\ resp' = Answer("run_draw", e, 400)
            /\ UNCHANGED <<events, assignments, draws>>
       ELSE create_secret_santa_assignments("run_draw", e)
    /\ UNCHANGED <<participants, nextPid, now>>
    /\ UNCHANGED beyondEvents

\* reopen_event (app_v2.py:522-534), by the logged-in user u.
Reopen(u, e) ==
    /\ e \in DOMAIN events
    /\ IF events[e].organizer_id # u
       THEN /\ resp' = Answer("reopen", e, 403)
            /\ UNCHANGED events
       ELSE /\ events' = [events EXCEPT ![e].status = REGISTRATION_OPEN]
            /\ resp' = Answer("reopen", e, 200)
    /\ UNCHANGED <<participants, assignments, nextPid, draws, now>>
    /\ UNCHANGED beyondEvents

\* A faulty variant of Close: the organizer is not looked at.
Close_by_anyone(u, e) ==
    /\ e \in DOMAIN events
    /\ events' = [events EXCEPT ![e].status = EVENT_CLOSED,
                                ![e].closed_at = now]
    /\ resp' = Answer("close", e, 200)
    /\ UNCHANGED <<participants, assignments, nextPid, draws, now>>
    /\ UNCHANGED beyondEvents

\* close_event (app_v2.py:536-549), by the logged-in user u.
Close(u, e) ==
    /\ e \in DOMAIN events
    /\ IF events[e].organizer_id # u
       THEN /\ resp' = Answer("close", e, 403)
            /\ UNCHANGED events
       ELSE /\ events' = [events EXCEPT ![e].status = EVENT_CLOSED,
                                        ![e].closed_at = now]
            /\ resp' = Answer("close", e, 200)
    /\ UNCHANGED <<participants, assignments, nextPid, draws, now>>
    /\ UNCHANGED beyondEvents

\* A faulty variant of ToggleGuessing: guessing is enabled in any status.
ToggleGuessing_any_status(u, e) ==
    /\ e \in DOMAIN events
    /\ IF events[e].organizer_id # u
       THEN /\ resp' = Answer("toggle_guessing", e, 403)
            /\ UNCHANGED events
       ELSE /\ events' = [events EXCEPT
                   ![e].guessing_enabled = ~events[e].guessing_enabled]
            /\ resp' = Answer("toggle_guessing", e, 200)
    /\ UNCHANGED <<participants, assignments, nextPid, draws, now>>
    /\ UNCHANGED beyondEvents

\* toggle_guessing (app_v2.py:551-571), by the logged-in user u.
ToggleGuessing(u, e) ==
    /\ e \in DOMAIN events
    /\ IF events[e].organizer_id # u
       THEN /\ resp' = Answer("toggle_guessing", e, 403)
            /\ UNCHANGED events
       ELSE IF ~events[e].guessing_enabled /\ events[e].status # DRAW_COMPLETED
       THEN /\ resp' = Answer("toggle_guessing", e, 400)
            /\ UNCHANGED events
       ELSE /\ events' = [events EXCEPT
                   ![e].guessing_enabled = ~events[e].guessing_enabled]
            /\ resp' = Answer("toggle_guessing", e, 200)
    /\ UNCHANGED <<participants, assignments, nextPid, draws, now>>
    /\ UNCHANGED beyondEvents

\* A faulty variant of DeleteEvent: the status of the event is not looked at.
DeleteEvent_any_status(u, e) ==
    /\ e \in DOMAIN events
    /\ IF events[e].organizer_id # u
       THEN /\ resp' = Answer("delete_event", e, 403)
            /\ UNCHANGED <<events, participants, assignments>>
       ELSE /\ events' = [c \in DOMAIN events \ {e} |-> events[c]]
            /\ participants' = [p \in DOMAIN participants \ ParticipantIds(e)
                                   |-> participants[p]]
            /\ assignments' = ClearExisting(e)
            /\ resp' = Answer("delete_event", e, 200)
    /\ UNCHANGED <<nextPid, draws, now>>
    /\ UNCHANGED beyondEvents

\* delete_event (app_v2.py:573-594), by the logged-in user u; the delete
\* cascades to the participants and the assignments (models.py:65-66).
DeleteEvent(u, e) ==
    /\ e \in DOMAIN events
    /\ IF events[e].organizer_id # u
       THEN /\ resp' = Answer("delete_event", e, 403)
            /\ UNCHANGED <<events, participants, assignments>>
       ELSE IF events[e].status # EVENT_CLOSED
       THEN /\ resp' = Answer("delete_event", e, 400)
            /\ UNCHANGED <<events, participants, assignments>>
       ELSE /\ events' = [c \in DOMAIN events \ {e} |-> events[c]]
            /\ participants' = [p \in DOMAIN participants \ ParticipantIds(e)
                                   |-> participants[p]]
            /\ assignments' = ClearExisting(e)
            /\ resp' = Answer("delete_event", e, 200)
    /\ UNCHANGED <<nextPid, draws, now>>
    /\ UNCHANGED beyondEvents

\* Time passes.
Tick ==
    /\ now < MaxTime
    /\ now' = now + 1
    /\ UNCHANGED <<events, participants, assignments, nextPid, draws, resp>>
    /\ UNCHANGED beyondEvents

\* ------------------------------------------- the lifecycle, one request
\* after the other, from the empty database.  The clock stands still here;
\* SpecDrawn lets time pass between the requests.
Init ==
    /\ events = <<>>
    /\ participants = <<>>
    /\ assignments = {}
    /\ nextPid = 0
    /\ draws = 0
    /\ now = 0
    /\ resp = Answer("none", "none", 0)
    /\ legacy = LegacyIdle
    /\ feed = NoFeed
    /\ auth_tokens = <<>>
    /\ session = NoSessions
    /\ req = NoRequests

Next ==
    \/ \E u \in Users, e \in Codes : CreateEvent(u, e)
    \/ \E e \in Codes, m \in Emails, w \in BOOLEAN : Register(e, m, w)
    \/ \E u \in Users, e \in Codes : Join(u, e)
    \/ \E u \in Users, e \in Codes, p \in 1..MaxPid : Remove(u, e, p)
    \/ \E u \in Users, e \in Codes : RunDraw(u, e)
    \/ \E u \in Users, e \in Codes : Reopen(u, e)
    \/ \E u \in Users, e \in Codes : Close(u, e)
    \/ \E u \in Users, e \in Codes : ToggleGuessing(u, e)
    \/ \E u \in Users, e \in Codes : DeleteEvent(u, e)

Spec == Init /\ [][Next]_vars

\* ------------------------------------------------- the legacy draw (app.py)
\* A faulty variant of LegacySelfFree: only the first pair is compared.
LegacySelfFree_first_only(givers, recipients) ==
    Len(givers) = 0 \/ givers[1] # recipients[1]

\* all(giver != receiver for giver, receiver in zip(participants,
\* recipients)) (app.py:156).
LegacySelfFree(givers, recipients) ==
    \A i \in 1..Len(givers) : givers[i] # recipients[i]

\* The loop "while attempts < max_attempts" (app.py:153-162): attempts
\* counts the invalid shuffles; the loop breaks at the first valid one, and
\* RuntimeError is raised when attempts has reached max_attempts.
LegacyAttempts(good, bad) ==
    LET reached == {k \in 0..(legacy_max_attempts - 1) : k = 0 \/ bad # {}}
    IN  {[ok |-> TRUE, recipients |-> r] : r \in good, k \in reached}
        \cup (IF legacy_max_attempts = 0 \/ bad # {}
              THEN {[ok |-> FALSE, recipients |-> <<>>]} ELSE {})

AT_LEAST_2 == "At least 2 participants are required"

\* create_secret_santa_assignments(emails, event_id) of app.py
\* (app.py:138-177), applied to the list the call was made with; rows are
\* the (giver, receiver) pairs it saved, in order.
LegacyCreate ==
    /\ legacy.pc = "called"
    /\ IF Len(legacy.emails) < 2
       THEN legacy' = [legacy EXCEPT !.pc = "raised", !.raised = AT_LEAST_2]
       ELSE LET all == Shuffles(legacy.emails)
                good == {r \in all : LegacySelfFree(legacy.emails, r)}
            IN  \E out \in LegacyAttempts(good, all \ good) :
                    IF out.ok
                    THEN legacy' = [legacy EXCEPT
                             !.pc = "returned",
                             !.rows = [i \in 1..Len(legacy.emails) |->
                                         <<legacy.emails[i], out.recipients[i]>>]]
                    ELSE legacy' = [legacy EXCEPT !.pc = "raised",
                                                  !.raised = COULD_NOT_CREATE]
    /\ UNCHANGED <<events, participants, assignments, nextPid, draws, now,
                   resp, auth_tokens, session, req, feed>>

\* ------------------------------------------------- the draw on its own
\* Addresses for the participants of an event handed to the draw.
EmailPool == <<"a@x", "b@x", "c@x", "d@x", "e@x", "f@x">>

\* The lists of addresses of length at most n.
ListsUpTo(n) == UNION {[1..k -> Emails] : k \in 0..n}

\* create_secret_santa_assignments(event) of app_v2.py, applied once to the
\* event as set up; the answer records the return (200) or the ValueError
\* (500).
ApplyCreate(e) ==
    /\ resp.op = "none"
    /\ e \in DOMAIN events
    /\ create_secret_santa_assignments("create_secret_santa_assignments", e)
    /\ UNCHANGED <<participants, nextPid, now>>
    /\ UNCHANGED beyondEvents

\* The inputs of the two functions: an event with its settings and n
\* participants, or a list of addresses for the legacy function (which
\* takes the list as the form gave it, repeated addresses included).
InitAssign ==
    /\ nextPid = 0 /\ draws = 0 /\ now = 0
    /\ resp = Answer("none", "none", 0)
    /\ assignments = {}
    /\ auth_tokens = <<>> /\ session = NoSessions /\ req = NoRequests
    /\ feed = NoFeed
    /\ \/ /\ legacy = LegacyIdle
          /\ \E m \in 0..DEFAULT_MIN_PARTICIPANTS, self \in BOOLEAN :
                 events = ("E1" :> [NewEvent("u1") EXCEPT
                                       !.min_participants = m,
                                       !.allow_self_assignment = self])
          /\ \E n \in 0..MaxN :
                 participants = [p \in 1..n |->
                                    Participant("E1", EmailPool[p])]
       \/ /\ events = <<>> /\ participants = <<>>
          /\ \E l \in ListsUpTo(MaxLegacyLen) :
                 legacy = [pc |-> "called", emails |-> l,
                           rows |-> <<>>, raised |-> ""]

NextAssign ==
    \/ \E e \in Codes : ApplyCreate(e)
    \/ LegacyCreate

SpecAssign == InitAssign /\ [][NextAssign]_vars

\* ------------------------------------------------------------ magic links
\* secrets.token_urlsafe(32) (app_v2.py:86): the strings handed out, in
\* order; a request may also carry a string that was never handed out.
TokenPool == <<"t1", "t2", "t3">>
TokenNames == {TokenPool[i] : i \in 1..MaxTokens}

INVALID_LINK == "Invalid or expired login link"

\* datetime.now(timezone.utc): an aware datetime.
UtcNow == [t |-> now, tzinfo |-> "UTC"]

\* expires.replace(tzinfo=timezone.utc) for a naive datetime
\* (models.py:182-185).
AsUtc(ts) == IF ts.tzinfo = NULL THEN [ts EXCEPT !.tzinfo = "UTC"] ELSE ts

\* A faulty variant of is_valid: a used token is still valid.
is_valid_ignores_used(row) ==
    UtcNow.t < AsUtc(row.expires_at).t

\* A faulty variant of is_valid: valid up to and including expires_at.
is_valid_inclusive(row) ==
    IF row.used THEN FALSE
    ELSE UtcNow.t <= AsUtc(row.expires_at).t

\* AuthToken.is_valid (models.py:173-187).
is_valid(row) ==
    IF row.used THEN FALSE
    ELSE UtcNow.t < AsUtc(row.expires_at).t

\* login, POST (app_v2.py:271-301) with create_magic_link_token
\* (app_v2.py:84-97) for the user u.  The DateTime column hands expires_at
\* back naive or aware, depending on the database; sent says whether the
\* mail went out.
Login(u, tz, sent) ==
    /\ Cardinality(DOMAIN auth_tokens) < MaxTokens
    /\ LET tok == TokenPool[Cardinality(DOMAIN auth_tokens) + 1]
       IN  /\ auth_tokens' = auth_tokens @@
                  (tok :> [user_id |-> u,
                           created_at |-> now,
                           expires_at |-> [t |-> now + TOKEN_LIFETIME,
                                           tzinfo |-> tz],
                           used |-> FALSE])
           /\ resp' = Answer("login", tok, IF sent THEN 200 ELSE 500)
    /\ UNCHANGED <<events, participants, assignments, nextPid, draws, now,
                   feed, legacy, session, req>>

\* "Mark token as used" (app_v2.py:314-316).
MarkUsed(tok) == [auth_tokens EXCEPT ![tok].used = TRUE]

\* "Log in user" (app_v2.py:322-325), in the session of browser c.
LoggedIn(c, u) ==
    [session EXCEPT ![c].user_id = u, ![c].user_email = UserEmail[u]]

\* verify_magic_link (app_v2.py:305-333) for the token string tok, sent by
\* browser c.  Both answers are redirects.
Verify(c, tok) ==
    /\ IF tok \notin DOMAIN auth_tokens \/ ~is_valid(auth_tokens[tok])
       THEN /\ resp' = AnswerErr("verify", tok, 302, INVALID_LINK)
            /\ UNCHANGED <<auth_tokens, session>>
       ELSE /\ auth_tokens' = MarkUsed(tok)
            /\ session' = LoggedIn(c, auth_tokens[tok].user_id)
            /\ resp' = Answer("verify", tok, 302)
    /\ UNCHANGED <<events, participants, assignments, nextPid, draws, now,
                   feed, legacy, req>>

\* logout (app_v2.py:335-340): session.clear().
Logout(c) ==
    /\ session' = [session EXCEPT ![c] = NoSessions[c]]
    /\ resp' = Answer("logout", "none", 302)
    /\ UNCHANGED <<events, participants, assignments, nextPid, draws, now,
                   feed, legacy, auth_tokens, req>>

\* Time passes.
AuthTick ==
    /\ now < MaxAuthTime
    /\ now' = now + 1
    /\ UNCHANGED <<events, participants, assignments, nextPid, draws, resp,
                   feed, legacy, auth_tokens, session, req>>

NextAuth ==
    \/ \E u \in Users, tz \in {NULL, "UTC"}, sent \in BOOLEAN : Login(u, tz, sent)
    \/ \E c \in Clients, tok \in TokenNames : Verify(c, tok)
    \/ \E c \in Clients : Logout(c)
    \/ AuthTick

\* The magic links, one request after the other, from the empty database.
SpecAuth == Init /\ [][NextAuth]_vars

\* ------------------------------------- two verifications at the same time
\* The first half of verify_magic_link (app_v2.py:308-312) for the request
\* in slot r: the query and the is_valid check, on the row as it is now.
VerifyLoad(r, c, tok) ==
    /\ req[r].pc = "idle"
    /\ IF tok \notin DOMAIN auth_tokens \/ ~is_valid(auth_tokens[tok])
       THEN /\ req' = [req EXCEPT ![r] = [pc |-> "rejected", client |-> c,
                                          token |-> tok]]
            /\ resp' = AnswerErr("verify", tok, 302, INVALID_LINK)
       ELSE /\ req' = [req EXCEPT ![r] = [pc |-> "valid", client |-> c,
                                          token |-> tok]]
            /\ UNCHANGED resp
    /\ UNCHANGED <<events, participants, assignments, nextPid, draws, now,
                   feed, legacy, auth_tokens, session>>

\* The second half (app_v2.py:314-333): the row the request loaded is
\* marked used, the session is filled and the transaction commits.  The
\* UPDATE names the row by its id and does not look at used again.
VerifyCommit(r) ==
    /\ req[r].pc = "valid"
    /\ auth_tokens' = MarkUsed(req[r].token)
    /\ session' = LoggedIn(req[r].client, auth_tokens[req[r].token].user_id)
    /\ req' = [req EXCEPT ![r].pc = "logged_in"]
    /\ resp' = Answer("verify", req[r].token, 302)
    /\ UNCHANGED <<events, participants, assignments, nextPid, draws, now,
                   feed, legacy>>

NextVerifyRace ==
    \/ \E u \in Users, tz \in {NULL, "UTC"}, sent \in BOOLEAN : Login(u, tz, sent)
    \/ \E r \in Slots, c \in Clients, tok \in TokenNames : VerifyLoad(r, c, tok)
    \/ \E r \in Slots : VerifyCommit(r)
    \/ AuthTick

SpecVerifyRace == Init /\ [][NextVerifyRace]_vars

\* ------------------------------------------ redrawing with new participants
\* The fourth address, for a registration after a first draw.
LateEmails == Emails \cup {"d@x"}

\* The state after three registrations and a first draw of event E1, which
\* Spec reaches; the first draw gave one of the two derangements.
InitDrawn ==
    /\ events = ("E1" :> [NewEvent("u1") EXCEPT !.status = DRAW_COMPLETED,
                                                 !.draw_date = 0])
    /\ participants = (1 :> Participant("E1", "a@x"))
                   @@ (2 :> Participant("E1", "b@x"))
                   @@ (3 :> Participant("E1", "c@x"))
    /\ \E r \in {<<2, 3, 1>>, <<3, 1, 2>>} :
           assignments = NewAssignments("E1", <<1, 2, 3>>, r, 1)
    /\ nextPid = 3
    /\ draws = 1
    /\ now = 0
    /\ resp = Answer("run_draw", "E1", 200)
    /\ legacy = LegacyIdle
    /\ feed = NoFeed
    /\ auth_tokens = <<>>
    /\ session = NoSessions
    /\ req = NoRequests

NextDrawn ==
    \/ \E u \in Users, e \in Codes : CreateEvent(u, e)
    \/ \E e \in Codes, m \in LateEmails, w \in BOOLEAN : Register(e, m, w)
    \/ \E u \in Users, e \in Codes : Join(u, e)
    \/ \E u \in Users, e \in Codes, p \in 1..MaxPid : Remove(u, e, p)
    \/ \E u \in Users, e \in Codes : RunDraw(u, e)
    \/ \E u \in Users, e \in Codes : Reopen(u, e)
    \/ \E u \in Users, e \in Codes : Close(u, e)
    \/ \E u \in Users, e \in Codes : ToggleGuessing(u, e)
    \/ \E u \in Users, e \in Codes : DeleteEvent(u, e)
    \/ Tick

SpecDrawn == InitDrawn /\ [][NextDrawn]_vars

\* ------------------------------------------- two draws at the same time
\* The reads of run_draw (app_v2.py:488-499) and of
\* create_secret_santa_assignments (app_v2.py:209-216) for the request in
\* slot r, by the logged-in user u:
\* the event, can_run_draw, list(event.participants) and event.assignments
\* are loaded into the request's own session.  No row is locked.
DrawRead(r, u, e) ==
    /\ req[r].pc = "idle"
    /\ e \in DOMAIN events
    /\ IF events[e].organizer_id # u
       THEN /\ req' = [req EXCEPT ![r] = [pc |-> "rejected", code |-> e]]
            /\ resp' = Answer("run_draw", e, 403)
       ELSE IF ~can_run_draw(e)
       THEN /\ req' = [req EXCEPT ![r] = [pc |-> "rejected", code |-> e]]
            /\ resp' = Answer("run_draw", e, 400)
       ELSE /\ req' = [req EXCEPT ![r] =
                          [pc |-> "loaded", code |-> e,
                           allow_self |-> events[e].allow_self_assignment,
                           givers |-> AsList(ParticipantIds(e)),
                           old |-> EventAssignments(e)]]
            /\ UNCHANGED resp
    /\ UNCHANGED <<events, participants, assignments, nextPid, draws, now,
                   feed, legacy, auth_tokens, session>>

\* The rest of create_secret_santa_assignments (app_v2.py:218-250) for the
\* request in slot r: the loop, and on a valid shuffle the commit, which
\* deletes the rows the request loaded, inserts its own rows and updates the
\* event by its id.  A DELETE that matches no row any more does not fail.
DrawWrite(r) ==
    /\ req[r].pc = "loaded"
    /\ req[r].code \in DOMAIN events
    /\ \E out \in DrawOutcomesOf(req[r].allow_self, req[r].givers) :
         IF out.ok
         THEN /\ assignments' = (assignments \ req[r].old) \cup
                    NewAssignments(req[r].code, req[r].givers,
                                   out.receivers, draws + 1)
              /\ events' = [events EXCEPT
                               ![req[r].code].status = DRAW_COMPLETED,
                               ![req[r].code].draw_date = now]
              /\ draws' = draws + 1
              /\ req' = [req EXCEPT ![r].pc = "committed"]
              /\ resp' = Answer("run_draw", req[r].code, 200)
         ELSE /\ req' = [req EXCEPT ![r].pc = "failed"]
              /\ resp' = AnswerErr("run_draw", req[r].code, 500,
                                   COULD_NOT_CREATE)
              /\ UNCHANGED <<events, assignments, draws>>
    /\ UNCHANGED <<participants, nextPid, now, legacy, auth_tokens, session,
                   feed>>

\* Event E1 of u1 with three participants and registration open: before the
\* first draw, or reopened after a first draw.
InitDrawRace ==
    /\ participants = (1 :> Participant("E1", "a@x"))
                   @@ (2 :> Participant("E1", "b@x"))
                   @@ (3 :> Participant("E1", "c@x"))
    /\ \/ /\ events = ("E1" :> NewEvent("u1"))
          /\ assignments = {}
          /\ draws = 0
          /\ resp = Answer("register", "E1", 200)
       \/ /\ events = ("E1" :> [NewEvent("u1") EXCEPT !.draw_date = 0])
          /\ \E rcv \in {<<2, 3, 1>>, <<3, 1, 2>>} :
                 assignments = NewAssignments("E1", <<1, 2, 3>>, rcv, 1)
          /\ draws = 1
          /\ resp = Answer("reopen", "E1", 200)
    /\ nextPid = 3
    /\ now = 0
    /\ legacy = LegacyIdle
    /\ feed = NoFeed
    /\ auth_tokens = <<>>
    /\ session = NoSessions
    /\ req = NoRequests

NextDrawRace ==
    \/ \E r \in Slots, u \in Users, e \in Codes : DrawRead(r, u, e)
    \/ \E r \in Slots : DrawWrite(r)
    \/ \E e \in Codes, m \in LateEmails, w \in BOOLEAN : Register(e, m, w)
    \/ \E u \in Users, e \in Codes : Reopen(u, e)

SpecDrawRace == InitDrawRace /\ [][NextDrawRace]_vars

\* ------------------------------------------------------ the participant limit
\* Event E1 of u1 before the first registration, with a max_participants
\* (models.py:60) from 1 to MaxLimit in place of the default, so that a full
\* event is within reach.
InitLimit ==
    /\ \E m \in 1..MaxLimit :
           events = ("E1" :> [NewEvent("u1") EXCEPT !.max_participants = m])
    /\ participants = <<>>
    /\ assignments = {}
    /\ nextPid = 0
    /\ draws = 0
    /\ now = 0
    /\ resp = Answer("create_event", "E1", 200)
    /\ legacy = LegacyIdle
    /\ feed = NoFeed
    /\ auth_tokens = <<>>
    /\ session = NoSessions
    /\ req = NoRequests

NextLimit ==
    \/ \E e \in Codes, m \in LateEmails, w \in BOOLEAN : Register(e, m, w)
    \/ \E u \in Users, e \in Codes : Join(u, e)
    \/ \E u \in Users, e \in Codes, p \in 1..MaxPid : Remove(u, e, p)

\* Registering, joining and removing, around the limit.
SpecLimit == InitLimit /\ [][NextLimit]_vars

\* ------------------------------------- two registrations at the same time
\* Two events, so that one address can be registered in both.
RaceCodes == {"E1", "E2"}

\* The checks of register_participant (app_v2.py:603-646) for the request in
\* slot r, on the tables as they are now.
RegisterRead(r, e, email, wellFormed) ==
    /\ req[r].pc = "idle"
    /\ e \in DOMAIN events
    /\ IF \/ events[e].status # REGISTRATION_OPEN
          \/ participant_count(e) >= events[e].max_participants
          \/ ~wellFormed
          \/ \E p \in ParticipantIds(e) : participants[p].email = email
       THEN /\ req' = [req EXCEPT ![r] = [pc |-> "rejected", code |-> e,
                                          email |-> email]]
            /\ resp' = Answer("register", e, 400)
       ELSE /\ req' = [req EXCEPT ![r] = [pc |-> "register", code |-> e,
                                          email |-> email]]
            /\ UNCHANGED resp
    /\ UNCHANGED <<events, participants, assignments, nextPid, draws, now,
                   feed, legacy, auth_tokens, session>>

\* The insert and the commit of register_participant (app_v2.py:648-656).
\* The participants table has no unique constraint on event and address
\* (models.py:90-100), so the insert succeeds whatever the table holds.
RegisterWrite(r) ==
    /\ req[r].pc = "register"
    /\ nextPid < MaxPid
    /\ participants' = participants @@
           ((nextPid + 1) :> Participant(req[r].code, req[r].email))
    /\ nextPid' = nextPid + 1
    /\ req' = [req EXCEPT ![r].pc = "registered"]
    /\ resp' = Answer("register", req[r].code, 200)
    /\ UNCHANGED <<events, assignments, draws, now,
                   feed, legacy, auth_tokens, session>>

\* The checks of join_own_event (app_v2.py:895-914) for the request in slot
\* r, by the logged-in user u.
JoinRead(r, u, e) ==
    /\ req[r].pc = "idle"
    /\ e \in DOMAIN events
    /\ IF events[e].organizer_id # u
       THEN /\ req' = [req EXCEPT ![r] = [pc |-> "rejected", code |-> e,
                                          email |-> UserEmail[u]]]
            /\ resp' = Answer("join", e, 403)
       ELSE IF \/ events[e].status # REGISTRATION_OPEN
               \/ \E p \in ParticipantIds(e) : participants[p].email = UserEmail[u]
       THEN /\ req' = [req EXCEPT ![r] = [pc |-> "rejected", code |-> e,
                                          email |-> UserEmail[u]]]
            /\ resp' = Answer("join", e, 400)
       ELSE /\ req' = [req EXCEPT ![r] = [pc |-> "join", code |-> e,
                                          email |-> UserEmail[u]]]
            /\ UNCHANGED resp
    /\ UNCHANGED <<events, participants, assignments, nextPid, draws, now,
                   feed, legacy, auth_tokens, session>>

\* The insert and the commit of join_own_event (app_v2.py:916-924).
JoinWrite(r) ==
    /\ req[r].pc = "join"
    /\ nextPid < MaxPid
    /\ participants' = participants @@
           ((nextPid + 1) :> Participant(req[r].code, req[r].email))
    /\ nextPid' = nextPid + 1
    /\ req' = [req EXCEPT ![r].pc = "joined"]
    /\ resp' = Answer("join", req[r].code, 200)
    /\ UNCHANGED <<events, assignments, draws, now,
                   feed, legacy, auth_tokens, session>>

\* Two events of u1, both open and without participants.
InitRegisterRace ==
    /\ events = [e \in RaceCodes |-> NewEvent("u1")]
    /\ participants = <<>>
    /\ assignments = {}
    /\ nextPid = 0
    /\ draws = 0
    /\ now = 0
    /\ resp = Answer("create_event", "E2", 200)
    /\ legacy = LegacyIdle
    /\ feed = NoFeed
    /\ auth_tokens = <<>>
    /\ session = NoSessions
    /\ req = NoRequests

\* Two requests in flight, each a registration or a join.
NextRegisterRace ==
    \/ \E r \in Slots, e \in RaceCodes, m \in Emails, w \in BOOLEAN :
           RegisterRead(r, e, m, w)
    \/ \E r \in Slots : RegisterWrite(r)
    \/ \E r \in Slots, u \in Users, e \in RaceCodes : JoinRead(r, u, e)
    \/ \E r \in Slots : JoinWrite(r)

SpecRegisterRace == InitRegisterRace /\ [][NextRegisterRace]_vars

\* ---------------------------------------------------------------- the feed
MUST_LOG_IN == "You must be logged in"
INVALID_PARTICIPANT == "Invalid participant"
EMPTY_CONTENT == "cannot be empty"

\* Participant.query.filter_by(email=email, event_id=event).first(): the
\* rows it can return.
ByEmail(email, e) == {p \in ParticipantIds(e) : participants[p].email = email}

\* Participant.query.get(pid): the row, if there is one.
Get(pid) == IF pid \in DOMAIN participants THEN {pid} ELSE {}

\* The lookup of feed, POST (app_v2.py:993-1000): one key is tried, the
\* first that the session holds.
FeedLookup(sess, e) ==
    IF sess.participant_id # NO_ID THEN Get(sess.participant_id)
    ELSE IF sess.participant_email # NULL THEN ByEmail(sess.participant_email, e)
    ELSE IF sess.user_email # NULL THEN ByEmail(sess.user_email, e)
    ELSE {}

\* A faulty variant of current_participant: the participant the session
\* names is used whatever its event.
current_participant_any_event(sess, e) ==
    IF sess.participant_id # NO_ID /\ Get(sess.participant_id) # {}
    THEN Get(sess.participant_id)
    ELSE IF sess.participant_email # NULL /\ ByEmail(sess.participant_email, e) # {}
    THEN ByEmail(sess.participant_email, e)
    ELSE IF sess.user_email # NULL THEN ByEmail(sess.user_email, e)
    ELSE {}

\* current_participant of comment_post, like_hint, like_idea, comment_hint
\* and comment_idea (app_v2.py:1156-1167 and the same lines of the others):
\* the participant the session names if it is of event e, else the one with
\* the session's participant_email in e, else the one with its user_email.
current_participant(sess, e) ==
    LET found == Get(sess.participant_id)
        direct == IF sess.participant_id # NO_ID
                  THEN {p \in found : participants[p].event_id = e} ELSE {}
    IN  IF direct # {} THEN direct
        ELSE IF sess.participant_email # NULL /\ ByEmail(sess.participant_email, e) # {}
        THEN ByEmail(sess.participant_email, e)
        ELSE IF sess.user_email # NULL THEN ByEmail(sess.user_email, e)
        ELSE {}

\* "Update session with participant info if needed" (app_v2.py:1010-1014).
Remember(c, p) ==
    [session EXCEPT
        ![c].participant_id = IF @ = NO_ID THEN p ELSE @,
        ![c].participant_email = IF @ = NULL THEN participants[p].email ELSE @]

\* The rows of the three feed tables, which MaxFeedRows caps.
FeedRows ==
    Cardinality(feed.posts) + Cardinality(feed.comments)
        + Cardinality(feed.likes)

\* FeedLike.query.filter_by(post_id=..., participant_id=...)
\* (app_v2.py:1132): the likes of participant p on post_id.
LikesOf(post_id, p) ==
    {l \in feed.likes : l.post_id = post_id /\ l.participant_id = p}

\* FeedLike.id (models.py:235) of a new row, a fresh uuid: what tells the
\* row from the other likes of p on post_id, here their number plus one.
FreshLikeId(post_id, p) == Cardinality(LikesOf(post_id, p)) + 1

\* A faulty variant of ToggleLike: the existing like is not looked for.
ToggleLike_always_adds(post_id, p) ==
    /\ FeedRows < MaxFeedRows
    /\ feed' = [feed EXCEPT !.likes = @ \cup
                    {[id |-> FreshLikeId(post_id, p), post_id |-> post_id,
                      participant_id |-> p]}]

\* FeedLike(post_id, participant_id) added, or the existing one deleted
\* (app_v2.py:1131-1143): existing_like is the first row the query finds.
ToggleLike(post_id, p) ==
    IF LikesOf(post_id, p) # {}
    THEN \E existing_like \in LikesOf(post_id, p) :
             feed' = [feed EXCEPT !.likes = @ \ {existing_like}]
    ELSE /\ FeedRows < MaxFeedRows
         /\ feed' = [feed EXCEPT !.likes = @ \cup
                         {[id |-> FreshLikeId(post_id, p), post_id |-> post_id,
                           participant_id |-> p]}]

\* FeedComment(post_id, participant_id, ...) added (app_v2.py:1188-1195).
AddComment(post_id, p) ==
    /\ FeedRows < MaxFeedRows
    /\ feed' = [feed EXCEPT !.comments = @ \cup
                   {[id |-> Cardinality(feed.comments) + 1,
                     post_id |-> post_id, participant_id |-> p]}]

\* What no feed handler touches.
beyondFeed ==
    <<events, participants, assignments, nextPid, draws, now, legacy,
      auth_tokens, req>>

\* feed, POST (app_v2.py:968-1027), from browser c for event e; hasContent
\* says whether the content is non-empty.
Feed(c, e, hasContent) ==
    /\ e \in DOMAIN events
    /\ IF ~hasContent
       THEN /\ resp' = AnswerErr("feed", e, 302, EMPTY_CONTENT)
            /\ UNCHANGED <<feed, session>>
       ELSE IF FeedLookup(session[c], e) = {}
       THEN /\ resp' = AnswerErr("feed", e, 302, MUST_LOG_IN)
            /\ UNCHANGED <<feed, session>>
       ELSE \E p \in FeedLookup(session[c], e) :
            IF participants[p].event_id # e
            THEN /\ resp' = AnswerErr("feed", e, 302, INVALID_PARTICIPANT)
                 /\ UNCHANGED <<feed, session>>
            ELSE /\ FeedRows < MaxFeedRows
                 /\ feed' = [feed EXCEPT !.posts = @ \cup
                                {[id |-> Cardinality(feed.posts) + 1,
                                  event_id |-> e, participant_id |-> p]}]
                 /\ session' = Remember(c, p)
                 /\ resp' = Answer("feed", e, 302)
    /\ UNCHANGED beyondFeed

\* like_post (app_v2.py:1118-1143), from browser c for the post.
LikePost(c, post) ==
    /\ post \in feed.posts
    /\ IF session[c].participant_id = NO_ID
       THEN /\ resp' = AnswerErr("like_post", post.event_id, 401, "Not logged in")
            /\ UNCHANGED feed
       ELSE IF \A p \in Get(session[c].participant_id) :
                   participants[p].event_id # post.event_id
       THEN /\ resp' = AnswerErr("like_post", post.event_id, 403,
                                 INVALID_PARTICIPANT)
            /\ UNCHANGED feed
       ELSE /\ ToggleLike(<<"post", post.id>>, session[c].participant_id)
            /\ resp' = Answer("like_post", post.event_id, 200)
    /\ UNCHANGED session
    /\ UNCHANGED beyondFeed

\* The body that comment_post, comment_hint and comment_idea share
\* (app_v2.py:1151-1198): the comment of browser c on post_id, whose event
\* is e.  The session is filled before the content is looked at.
Comment(op, c, e, post_id, hasContent) ==
    IF current_participant(session[c], e) = {}
    THEN /\ resp' = AnswerErr(op, e, 302, MUST_LOG_IN)
         /\ UNCHANGED <<feed, session>>
    ELSE \E p \in current_participant(session[c], e) :
         IF participants[p].event_id # e
         THEN /\ resp' = AnswerErr(op, e, 302, INVALID_PARTICIPANT)
              /\ UNCHANGED <<feed, session>>
         ELSE /\ session' = Remember(c, p)
              /\ IF ~hasContent
                 THEN /\ resp' = AnswerErr(op, e, 302, EMPTY_CONTENT)
                      /\ UNCHANGED feed
                 ELSE /\ AddComment(post_id, p)
                      /\ resp' = Answer(op, e, 302)

\* The body that like_hint and like_idea share (app_v2.py:1207-1259): the
\* like of browser c on post_id, whose event is e.
Like(op, c, e, post_id) ==
    IF current_participant(session[c], e) = {}
    THEN /\ resp' = AnswerErr(op, e, 401, "Not logged in")
         /\ UNCHANGED <<feed, session>>
    ELSE \E p \in current_participant(session[c], e) :
         /\ session' = Remember(c, p)
         /\ ToggleLike(post_id, p)
         /\ resp' = Answer(op, e, 200)

\* comment_post (app_v2.py:1146-1198).
CommentPost(c, post, hasContent) ==
    /\ post \in feed.posts
    /\ Comment("comment_post", c, post.event_id, <<"post", post.id>>, hasContent)
    /\ UNCHANGED beyondFeed

\* like_hint (app_v2.py:1200-1264), on the hint of participant target.
LikeHint(c, target) ==
    /\ target \in DOMAIN participants
    /\ Like("like_hint", c, participants[target].event_id, <<"hint", target>>)
    /\ UNCHANGED beyondFeed

\* like_idea (app_v2.py:1266-1330), on the gift idea of participant target.
LikeIdea(c, target) ==
    /\ target \in DOMAIN participants
    /\ Like("like_idea", c, participants[target].event_id, <<"idea", target>>)
    /\ UNCHANGED beyondFeed

\* comment_hint (app_v2.py:1332-1386).
CommentHint(c, target, hasContent) ==
    /\ target \in DOMAIN participants
    /\ Comment("comment_hint", c, participants[target].event_id,
               <<"hint", target>>, hasContent)
    /\ UNCHANGED beyondFeed

\* comment_idea (app_v2.py:1388-1442).
CommentIdea(c, target, hasContent) ==
    /\ target \in DOMAIN participants
    /\ Comment("comment_idea", c, participants[target].event_id,
               <<"idea", target>>, hasContent)
    /\ UNCHANGED beyondFeed

\* The posts there can be, for the parameters of the handlers.
PostRows ==
    [id : 1..MaxFeedRows, event_id : RaceCodes, participant_id : 1..MaxPid]

\* The keys a browser's session can hold when it comes to the feed of two
\* events: participant 1 is a@x in E1, participants 2 and 3 are a@x and b@x
\* in E2, and participant 4 was removed.
FeedSessions ==
    [user_id : {NULL}, user_email : {NULL, "a@x"},
     participant_id : {NO_ID, 1, 2, 4},
     participant_email : {NULL, "a@x"}]

\* Browser c1 with any of these sessions, browser c2 registered as
\* participant 3.
InitFeed ==
    /\ events = [e \in RaceCodes |-> NewEvent("u1")]
    /\ participants = (1 :> Participant("E1", "a@x"))
                   @@ (2 :> Participant("E2", "a@x"))
                   @@ (3 :> Participant("E2", "b@x"))
    /\ assignments = {}
    /\ nextPid = 4
    /\ draws = 0
    /\ now = 0
    /\ resp = Answer("remove", "E1", 200)
    /\ legacy = LegacyIdle
    /\ feed = NoFeed
    /\ auth_tokens = <<>>
    /\ \E s \in FeedSessions :
           session = [c \in Clients |->
                         IF c = "c1" THEN s
                         ELSE [user_id |-> NULL, user_email |-> NULL,
                               participant_id |-> 3,
                               participant_email |-> "b@x"]]
    /\ req = NoRequests

NextFeed ==
    \/ \E c \in Clients, e \in RaceCodes, h \in BOOLEAN : Feed(c, e, h)
    \/ \E c \in Clients, post \in PostRows : LikePost(c, post)
    \/ \E c \in Clients, post \in PostRows, h \in BOOLEAN : CommentPost(c, post, h)
    \/ \E c \in Clients, t \in 1..MaxPid : LikeHint(c, t)
    \/ \E c \in Clients, t \in 1..MaxPid : LikeIdea(c, t)
    \/ \E c \in Clients, t \in 1..MaxPid, h \in BOOLEAN : CommentHint(c, t, h)
    \/ \E c \in Clients, t \in 1..MaxPid, h \in BOOLEAN : CommentIdea(c, t, h)

SpecFeed == InitFeed /\ [][NextFeed]_vars

\* ------------------------------------- the shuffle loops, attempt by attempt
\* create_secret_santa_assignments of app_v2.py up to its loop
\* (app_v2.py:209-222): the minimum check, the pending deletes, and the
\* loop entered with no shuffle made yet.
LoopEnter(r, e) ==
    /\ req[r].pc = "idle"
    /\ e \in DOMAIN events
    /\ IF participant_count(e) < events[e].min_participants
       THEN /\ req' = [req EXCEPT ![r] = [pc |-> "raised", code |-> e,
                                          attempt |-> 0]]
            /\ resp' = AnswerErr("create_secret_santa_assignments", e, 500,
                                 NEED_AT_LEAST)
       ELSE /\ req' = [req EXCEPT ![r] = [pc |-> "loop", code |-> e,
                                          attempt |-> 0]]
            /\ UNCHANGED resp
    /\ UNCHANGED <<events, participants, assignments, nextPid, draws, now>>
    /\ UNCHANGED <<legacy, auth_tokens, session, feed>>

\* A faulty variant of LoopAttempt: the shuffle of the last pass is stored
\* as it is.
LoopAttempt_keeps_last(r) ==
    /\ req[r].pc = "loop"
    /\ req[r].attempt < max_attempts
    /\ LET e == req[r].code
           givers == AsList(ParticipantIds(e))
       IN  \E receivers \in Shuffles(givers) :
             IF \/ SelfFree(events[e].allow_self_assignment, givers, receivers)
                \/ req[r].attempt = max_attempts - 1
             THEN /\ assignments' = ClearExisting(e) \cup
                        NewAssignments(e, givers, receivers, draws + 1)
                  /\ events' = [events EXCEPT ![e].status = DRAW_COMPLETED,
                                              ![e].draw_date = now]
                  /\ draws' = draws + 1
                  /\ req' = [req EXCEPT ![r].pc = "returned",
                                        ![r].attempt = @ + 1]
                  /\ resp' = Answer("create_secret_santa_assignments", e, 200)
             ELSE /\ req' = [req EXCEPT ![r].attempt = @ + 1]
                  /\ UNCHANGED <<events, assignments, draws, resp>>
    /\ UNCHANGED <<participants, nextPid, now>>
    /\ UNCHANGED <<legacy, auth_tokens, session, feed>>

\* One pass of "for attempt in range(max_attempts)" (app_v2.py:223-248):
\* one random.shuffle; a valid one is stored and committed and the function
\* returns, an invalid one leads to the next pass. attempt counts the
\* shuffles made.
LoopAttempt(r) ==
    /\ req[r].pc = "loop"
    /\ req[r].attempt < max_attempts
    /\ LET e == req[r].code
           givers == AsList(ParticipantIds(e))
       IN  \E receivers \in Shuffles(givers) :
             IF SelfFree(events[e].allow_self_assignment, givers, receivers)
             THEN /\ assignments' = ClearExisting(e) \cup
                        NewAssignments(e, givers, receivers, draws + 1)
                  /\ events' = [events EXCEPT ![e].status = DRAW_COMPLETED,
                                              ![e].draw_date = now]
                  /\ draws' = draws + 1
                  /\ req' = [req EXCEPT ![r].pc = "returned",
                                        ![r].attempt = @ + 1]
                  /\ resp' = Answer("create_secret_santa_assignments", e, 200)
             ELSE /\ req' = [req EXCEPT ![r].attempt = @ + 1]
                  /\ UNCHANGED <<events, assignments, draws, resp>>
    /\ UNCHANGED <<participants, nextPid, now>>
    /\ UNCHANGED <<legacy, auth_tokens, session, feed>>

\* The range is used up (app_v2.py:250): ValueError, nothing committed.
LoopExhausted(r) ==
    /\ req[r].pc = "loop"
    /\ req[r].attempt >= max_attempts
    /\ req' = [req EXCEPT ![r].pc = "raised"]
    /\ resp' = AnswerErr("create_secret_santa_assignments", req[r].code, 500,
                         COULD_NOT_CREATE)
    /\ assignments' = Uncommitted(req[r].code)
    /\ UNCHANGED <<events, participants, nextPid, draws, now>>
    /\ UNCHANGED <<legacy, auth_tokens, session, feed>>

\* create_secret_santa_assignments of app.py up to its loop
\* (app.py:140-151): attempts = 0.
LegacyLoopEnter ==
    /\ legacy.pc = "called"
    /\ IF Len(legacy.emails) < 2
       THEN legacy' = [legacy EXCEPT !.pc = "raised", !.raised = AT_LEAST_2]
       ELSE legacy' = [pc |-> "loop", emails |-> legacy.emails,
                       rows |-> <<>>, raised |-> "", attempts |-> 0]
    /\ UNCHANGED <<events, participants, assignments, nextPid, draws, now,
                   resp, auth_tokens, session, req, feed>>

\* One pass of "while attempts < max_attempts" (app.py:153-158), followed
\* after a break by the save and the return (app.py:160-177): attempts
\* counts the invalid shuffles.
LegacyLoopAttempt ==
    /\ legacy.pc = "loop"
    /\ legacy.attempts < legacy_max_attempts
    /\ \E recipients \in Shuffles(legacy.emails) :
         IF LegacySelfFree(legacy.emails, recipients)
         THEN legacy' = [legacy EXCEPT
                  !.pc = "returned",
                  !.rows = [i \in 1..Len(legacy.emails) |->
                              <<legacy.emails[i], recipients[i]>>]]
         ELSE legacy' = [legacy EXCEPT !.attempts = @ + 1]
    /\ UNCHANGED <<events, participants, assignments, nextPid, draws, now,
                   resp, auth_tokens, session, req, feed>>

\* "if attempts >= max_attempts" after the loop ran out (app.py:160-162):
\* RuntimeError, nothing saved.
LegacyLoopExhausted ==
    /\ legacy.pc = "loop"
    /\ legacy.attempts >= legacy_max_attempts
    /\ legacy' = [legacy EXCEPT !.pc = "raised", !.raised = COULD_NOT_CREATE]
    /\ UNCHANGED <<events, participants, assignments, nextPid, draws, now,
                   resp, auth_tokens, session, req, feed>>

NextLoop ==
    \/ \E e \in Codes : LoopEnter("r1", e)
    \/ LoopAttempt("r1")
    \/ LoopExhausted("r1")
    \/ LegacyLoopEnter
    \/ LegacyLoopAttempt
    \/ LegacyLoopExhausted

\* The inputs of the two loops: as InitAssign, with shorter lists (every
\* list makes its loop run up to max_attempts times).
InitLoop ==
    /\ nextPid = 0 /\ draws = 0 /\ now = 0
    /\ resp = Answer("none", "none", 0)
    /\ assignments = {}
    /\ auth_tokens = <<>> /\ session = NoSessions /\ req = NoRequests
    /\ feed = NoFeed
    /\ \/ /\ legacy = LegacyIdle
          /\ \E m \in 0..DEFAULT_MIN_PARTICIPANTS, self \in BOOLEAN :
                 events = ("E1" :> [NewEvent("u1") EXCEPT
                                       !.min_participants = m,
                                       !.allow_self_assignment = self])
          /\ \E n \in 0..MaxLoopLen :
                 participants = [p \in 1..n |->
                                    Participant("E1", EmailPool[p])]
       \/ /\ events = <<>> /\ participants = <<>>
          /\ \E l \in ListsUpTo(MaxLoopLen) :
                 legacy = [pc |-> "called", emails |-> l,
                           rows |-> <<>>, raised |-> ""]

SpecLoop == InitLoop /\ [][NextLoop]_vars

\* ------------------------------------------------------------- the guesses
\* is_own_page of member_page (app_v2.py:780-784) for the browser c and the
\* participant pid.
is_own_page(c, pid) ==
    \/ session[c].participant_id = pid
    \/ session[c].participant_email = participants[pid].email
    \/ session[c].user_email = participants[pid].email

\* A faulty variant of SubmitGuess: a second guess replaces the first.
SubmitGuess_again(c, e, pid, guess_id) ==
    /\ e \in DOMAIN events
    /\ pid \in ParticipantIds(e)
    /\ IF ~is_own_page(c, pid)
       THEN /\ resp' = Answer("submit_guess", e, 302)
            /\ UNCHANGED participants
       ELSE IF ~events[e].guessing_enabled
       THEN /\ resp' = Answer("submit_guess", e, 400)
            /\ UNCHANGED participants
       ELSE IF guess_id = NO_ID \/ guess_id = pid
       THEN /\ resp' = Answer("submit_guess", e, 400)
            /\ UNCHANGED participants
       ELSE \/ /\ guess_id \notin DOMAIN participants
               /\ resp' = Answer("submit_guess", e, 500)
               /\ UNCHANGED participants
            \/ /\ participants' = [participants EXCEPT
                                      ![pid].guessed_secret_santa_id = guess_id]
               /\ resp' = Answer("submit_guess", e, 200)
    /\ UNCHANGED <<events, assignments, nextPid, draws, now>>
    /\ UNCHANGED beyondEvents

\* member_page with action submit_guess (app_v2.py:769-821), sent by the
\* browser c for the participant pid of event e with the guess guess_id
\* (NO_ID: the request carries no guess).  A guess that names no participant
\* fails at the commit where the foreign key is checked (models.py:109) and
\* is stored where it is not; both outcomes are kept.
SubmitGuess(c, e, pid, guess_id) ==
    /\ e \in DOMAIN events
    /\ pid \in ParticipantIds(e)
    /\ IF ~is_own_page(c, pid)
       THEN /\ resp' = Answer("submit_guess", e, 302)
            /\ UNCHANGED participants
       ELSE IF ~events[e].guessing_enabled
       THEN /\ resp' = Answer("submit_guess", e, 400)
            /\ UNCHANGED participants
       ELSE IF participants[pid].guessed_secret_santa_id # NO_ID
       THEN /\ resp' = Answer("submit_guess", e, 400)
            /\ UNCHANGED participants
       ELSE IF guess_id = NO_ID \/ guess_id = pid
       THEN /\ resp' = Answer("submit_guess", e, 400)
            /\ UNCHANGED participants
       ELSE \/ /\ guess_id \notin DOMAIN participants
               /\ resp' = Answer("submit_guess", e, 500)
               /\ UNCHANGED participants
            \/ /\ participants' = [participants EXCEPT
                                      ![pid].guessed_secret_santa_id = guess_id]
               /\ resp' = Answer("submit_guess", e, 200)
    /\ UNCHANGED <<events, assignments, nextPid, draws, now>>
    /\ UNCHANGED beyondEvents

\* The browsers of the participants 1 and 2, as register_participant left
\* them (app_v2.py:660-661).
GuessSessions ==
    [c \in Clients |->
        IF c = "c1"
        THEN [user_id |-> NULL, user_email |-> NULL,
              participant_id |-> 1, participant_email |-> "a@x"]
        ELSE [user_id |-> NULL, user_email |-> NULL,
              participant_id |-> 2, participant_email |-> "b@x"]]

\* Event E1 of u1 after its draw, with three participants, and event E2 of
\* u2 with one participant and registration open.
InitGuess ==
    /\ events = ("E1" :> [NewEvent("u1") EXCEPT !.status = DRAW_COMPLETED,
                                                 !.draw_date = 0])
             @@ ("E2" :> NewEvent("u2"))
    /\ participants = (1 :> Participant("E1", "a@x"))
                   @@ (2 :> Participant("E1", "b@x"))
                   @@ (3 :> Participant("E1", "c@x"))
                   @@ (4 :> Participant("E2", "c@x"))
    /\ \E r \in {<<2, 3, 1>>, <<3, 1, 2>>} :
           assignments = NewAssignments("E1", <<1, 2, 3>>, r, 1)
    /\ nextPid = 4
    /\ draws = 1
    /\ now = 0
    /\ resp = Answer("run_draw", "E1", 200)
    /\ legacy = LegacyIdle
    /\ feed = NoFeed
    /\ auth_tokens = <<>>
    /\ session = GuessSessions
    /\ req = NoRequests

NextGuess ==
    \/ \E c \in Clients, e \in RaceCodes, p \in 1..MaxPid,
          g \in 0..(MaxPid + 1) : SubmitGuess(c, e, p, g)
    \/ \E u \in Users, e \in Codes : ToggleGuessing(u, e)
    \/ \E u \in Users, e \in Codes : Reopen(u, e)
    \/ \E u \in Users, e \in Codes : RunDraw(u, e)
    \/ \E u \in Users, e \in Codes : Close(u, e)
    \/ \E u \in Users, e \in RaceCodes, p \in 1..MaxPid : Remove(u, e, p)

SpecGuess == InitGuess /\ [][NextGuess]_vars

\* ------------------------------------------------- who the session names
\* User.query.filter_by(email=...).first() (app_v2.py:77, 747): the users
\* with the address email; User.email is unique (models.py:24).
UserOf(email) == {u \in Users : UserEmail[u] = email}

\* The addresses of the users.
UserEmails == {UserEmail[u] : u \in Users}

\* register_participant (app_v2.py:600-674) sent by browser c: Register,
\* with the session keys it stores for the member page (app_v2.py:660-661).
RegisterSession(c, e, email, wellFormed) ==
    /\ e \in DOMAIN events
    /\ IF \/ events[e].status # REGISTRATION_OPEN
          \/ participant_count(e) >= events[e].max_participants
          \/ ~wellFormed
          \/ \E p \in ParticipantIds(e) : participants[p].email = email
       THEN /\ resp' = Answer("register", e, 400)
            /\ UNCHANGED <<participants, nextPid, session>>
       ELSE /\ nextPid < MaxPid
            /\ participants' = participants @@
                   ((nextPid + 1) :> Participant(e, email))
            /\ nextPid' = nextPid + 1
            /\ session' = [session EXCEPT ![c].participant_id = nextPid + 1,
                                          ![c].participant_email = email]
            /\ resp' = Answer("register", e, 200)
    /\ UNCHANGED <<events, assignments, draws, now>>
    /\ UNCHANGED <<legacy, auth_tokens, req, feed>>

\* participant_dashboard (app_v2.py:676-755) sent by browser c; posted is
\* the address of a POST, NULL for a GET.  A browser that is logged in is
\* redirected; one without participant_email gets the login page, or for a
\* POST a magic link for the user of the address; one with
\* participant_email is logged in as the user of that address.
ParticipantDashboard(c, posted, tz) ==
    /\ IF session[c].user_id # NULL
       THEN /\ resp' = Answer("participant_dashboard", "none", 302)
            /\ UNCHANGED <<session, auth_tokens>>
       ELSE IF session[c].participant_email = NULL
       THEN IF posted = NULL
            THEN /\ resp' = Answer("participant_dashboard", "none", 200)
                 /\ UNCHANGED <<session, auth_tokens>>
            ELSE IF \A p \in DOMAIN participants : participants[p].email # posted
            THEN /\ resp' = Answer("participant_dashboard", "none", 404)
                 /\ UNCHANGED <<session, auth_tokens>>
            ELSE /\ Cardinality(DOMAIN auth_tokens) < MaxTokens
                 /\ \E u \in UserOf(posted) :
                      auth_tokens' = auth_tokens @@
                        (TokenPool[Cardinality(DOMAIN auth_tokens) + 1] :>
                           [user_id |-> u,
                            created_at |-> now,
                            expires_at |-> [t |-> now + TOKEN_LIFETIME,
                                            tzinfo |-> tz],
                            used |-> FALSE])
                 /\ resp' = Answer("participant_dashboard",
                                   TokenPool[Cardinality(DOMAIN auth_tokens) + 1],
                                   200)
                 /\ UNCHANGED session
       ELSE /\ IF UserOf(session[c].participant_email) = {}
               THEN UNCHANGED session
               ELSE \E u \in UserOf(session[c].participant_email) :
                      session' = [session EXCEPT
                                     ![c].user_id = u,
                                     ![c].user_email = UserEmail[u],
                                     ![c].participant_email = NULL,
                                     ![c].participant_id = NULL]
            /\ resp' = Answer("participant_dashboard", "none", 302)
            /\ UNCHANGED auth_tokens
    /\ UNCHANGED <<events, participants, assignments, nextPid, draws, now,
                   feed, legacy, req>>

\* create_event, POST (app_v2.py:346-397), sent by browser c; e is the code
\* generated for the event.  A browser that is not logged in and holds the
\* participant_email of a participant is logged in as the user of that
\* address first (app_v2.py:353-364).
CreateEventSession(c, e) ==
    /\ e \notin DOMAIN events
    /\ LET auto == IF /\ session[c].user_id = NULL
                      /\ session[c].participant_email # NULL
                      /\ \E p \in DOMAIN participants :
                             participants[p].email = session[c].participant_email
                   THEN UserOf(session[c].participant_email)
                   ELSE {}
       IN  IF auto # {}
           THEN \E u \in auto :
                  /\ session' = LoggedIn(c, u)
                  /\ events' = events @@ (e :> NewEvent(u))
                  /\ resp' = Answer("create_event", e, 200)
           ELSE IF session[c].user_id = NULL
           THEN /\ resp' = Answer("create_event", e, 302)
                /\ UNCHANGED <<events, session>>
           ELSE /\ events' = events @@ (e :> NewEvent(session[c].user_id))
                /\ resp' = Answer("create_event", e, 200)
                /\ UNCHANGED session
    /\ UNCHANGED <<participants, assignments, nextPid, draws, now>>
    /\ UNCHANGED <<legacy, auth_tokens, req, feed>>

\* Event E1 of u1 with registration open and no participant; no browser is
\* logged in.
InitSession ==
    /\ events = ("E1" :> NewEvent("u1"))
    /\ participants = <<>>
    /\ assignments = {}
    /\ nextPid = 0
    /\ draws = 0
    /\ now = 0
    /\ resp = Answer("none", "none", 0)
    /\ legacy = LegacyIdle
    /\ feed = NoFeed
    /\ auth_tokens = <<>>
    /\ session = NoSessions
    /\ req = NoRequests

NextSession ==
    \/ \E u \in Users, tz \in {NULL, "UTC"}, sent \in BOOLEAN : Login(u, tz, sent)
    \/ \E c \in Clients, tok \in TokenNames : Verify(c, tok)
    \/ \E c \in Clients : Logout(c)
    \/ \E c \in Clients, e \in Codes, m \in UserEmails, w \in BOOLEAN :
           RegisterSession(c, e, m, w)
    \/ \E c \in Clients, posted \in UserEmails \cup {NULL}, tz \in {NULL, "UTC"} :
           ParticipantDashboard(c, posted, tz)
    \/ \E c \in Clients, e \in RaceCodes : CreateEventSession(c, e)

SpecSession == InitSession /\ [][NextSession]_vars

\* ------------------------------------------------------------------ claims
GiverRows(e, p) == {a \in EventAssignments(e) : a.giver_id = p}
ReceiverRows(e, p) == {a \in EventAssignments(e) : a.receiver_id = p}

\* The number of positions of the list l that hold x.
Occurrences(l, x) == Cardinality({i \in 1..Len(l) : l[i] = x})

\* C1: when create_secret_santa_assignments returns for an event with at
\* least 2 participants that does not allow self-assignment, the stored
\* rows are a bijection on the participants (every participant gives in
\* exactly one row and receives in exactly one row) and no row has the
\* giver as its receiver, whatever the shuffles gave.  For the function of
\* app.py the participants are the entries of the list: every address is
\* giver, and receiver, of as many rows as the list holds it, and no row
\* pairs an address with itself.
C1_DrawIsDerangement ==
    /\ \A e \in DOMAIN events :
           (/\ resp = Answer("create_secret_santa_assignments", e, 200)
            /\ participant_count(e) >= 2
            /\ ~events[e].allow_self_assignment) =>
               /\ Cardinality(EventAssignments(e)) = participant_count(e)
               /\ \A a \in EventAssignments(e) :
                      /\ a.giver_id # a.receiver_id
                      /\ a.giver_id \in ParticipantIds(e)
                      /\ a.receiver_id \in ParticipantIds(e)
               /\ \A p \in ParticipantIds(e) :
                      /\ Cardinality(GiverRows(e, p)) = 1
                      /\ Cardinality(ReceiverRows(e, p)) = 1
    /\ legacy.pc = "returned" =>
           /\ Len(legacy.rows) = Len(legacy.emails)
           /\ \A i \in 1..Len(legacy.rows) : legacy.rows[i][1] # legacy.rows[i][2]
           /\ \A x \in Emails :
                  /\ Occurrences([i \in 1..Len(legacy.rows) |-> legacy.rows[i][1]], x)
                         = Occurrences(legacy.emails, x)
                  /\ Occurrences([i \in 1..Len(legacy.rows) |-> legacy.rows[i][2]], x)
                         = Occurrences(legacy.emails, x)

\* The draw returned for an event of four participants that does not allow
\* self-assignment.
C1_Witness ==
    /\ resp = Answer("create_secret_santa_assignments", "E1", 200)
    /\ participant_count("E1") = 4
    /\ ~events["E1"].allow_self_assignment
    /\ Cardinality(assignments) = 4

\* C2: in every reachable state in which an event is DRAW_COMPLETED, the
\* event has as many assignment rows as participants, and every participant
\* is the giver of exactly one row and the receiver of exactly one row.
C2_DrawCompletedIsPermutation ==
    \A e \in DOMAIN events :
        events[e].status = DRAW_COMPLETED =>
            /\ Cardinality(EventAssignments(e)) = participant_count(e)
            /\ \A p \in ParticipantIds(e) :
                   /\ Cardinality(GiverRows(e, p)) = 1
                   /\ Cardinality(ReceiverRows(e, p)) = 1

\* A second draw has completed, after a removal and a reopen.
C2_Witness ==
    \E e \in DOMAIN events :
        /\ events[e].status = DRAW_COMPLETED
        /\ draws = 2
        /\ nextPid > participant_count(e)
        /\ participant_count(e) >= 3

\* C3: of two run-draw requests for the same event that run at the same
\* time at most one commits: the event never holds more assignments than
\* participants, and no participant is the giver of two assignments.
C3_AtMostOneDrawCommits ==
    \A e \in DOMAIN events :
        /\ Cardinality(EventAssignments(e)) <= participant_count(e)
        /\ \A a, b \in EventAssignments(e) :
               a.giver_id = b.giver_id => a = b

\* C4: a run-draw request for an event that is not REGISTRATION_OPEN or has
\* fewer participants than min_participants is answered 400 (or 403 for a
\* user who is not the organizer) and leaves the event's status, draw_date
\* and assignment rows as they were; so does a second run-draw after a
\* successful one.
C4_RejectedDrawChangesNothing ==
    [][\A u \in Users, e \in Codes :
          (/\ resp'.op = "run_draw"
           /\ RunDraw(u, e)
           /\ \/ events[e].status # REGISTRATION_OPEN
              \/ participant_count(e) < events[e].min_participants) =>
              /\ resp'.op = "run_draw" /\ resp'.http \in {400, 403}
              /\ e \in DOMAIN events'
              /\ events'[e].status = events[e].status
              /\ events'[e].draw_date = events[e].draw_date
              /\ assignments' = assignments]_vars

\* A run-draw was answered 400 for an event whose draw is completed.
C4_Witness ==
    /\ resp.op = "run_draw" /\ resp.http = 400
    /\ resp.code \in DOMAIN events
    /\ events[resp.code].status = DRAW_COMPLETED
    /\ participant_count(resp.code) >= events[resp.code].min_participants

\* C5: after a successful draw the assignment rows of the event are exactly
\* the rows that draw created, one per participant: no row of an earlier
\* draw is left.
C5_OnlyRowsOfLastDraw ==
    \A e \in DOMAIN events :
        resp = Answer("run_draw", e, 200) =>
            /\ \A a \in EventAssignments(e) : a.id[1] = draws
            /\ Cardinality(EventAssignments(e)) = participant_count(e)

\* A second draw succeeded after a reopen and a fourth registration.
C5_Witness ==
    /\ resp = Answer("run_draw", "E1", 200)
    /\ draws = 2
    /\ "E1" \in DOMAIN events
    /\ participant_count("E1") = 4

\* C6: a permitted run-draw that ends with "Could not create valid
\* assignments" leaves the tables as they were: status, draw_date, the
\* assignment rows (those of an earlier draw included) and the participants.
C6_FailedDrawChangesNothing ==
    [][\A u \in Users, e \in Codes :
          (/\ resp'.op = "run_draw"
           /\ resp'.http # 200
           /\ RunDraw(u, e)
           /\ events[e].organizer_id = u
           /\ events[e].status = REGISTRATION_OPEN
           /\ participant_count(e) >= events[e].min_participants) =>
              /\ resp'.error = COULD_NOT_CREATE
              /\ events' = events
              /\ assignments' = assignments
              /\ participants' = participants]_vars

\* A draw over an event reopened after an earlier draw failed, and the rows
\* of the earlier draw are stored.
C6_Witness ==
    /\ resp.op = "run_draw" /\ resp.http = 500
    /\ resp.error = COULD_NOT_CREATE
    /\ resp.code \in DOMAIN events
    /\ events[resp.code].status = REGISTRATION_OPEN
    /\ Cardinality(EventAssignments(resp.code)) = 3
    /\ draws = 1

\* C7: one request after the other, a token logs in at most once.  The
\* verification of an unused, unexpired token logs the user in and marks
\* the token used; the verification of a used token is rejected and leaves
\* the session alone, also before expires_at; a used token stays used.
C7_TokenLogsInOnce ==
    [][/\ \A c \in Clients, tok \in DOMAIN auth_tokens :
            (resp'.op = "verify" /\ Verify(c, tok)) =>
                /\ auth_tokens[tok].used =>
                       /\ resp'.error = INVALID_LINK
                       /\ session' = session
                /\ resp'.error = "" =>
                       /\ ~auth_tokens[tok].used
                       /\ auth_tokens'[tok].used
                       /\ session'[c].user_id = auth_tokens[tok].user_id
                /\ (~auth_tokens[tok].used
                    /\ now < auth_tokens[tok].expires_at.t) => resp'.error = ""
       /\ \A tok \in DOMAIN auth_tokens :
            auth_tokens[tok].used =>
                tok \in DOMAIN auth_tokens' /\ auth_tokens'[tok].used]_vars

\* A used token was presented again before its expiry, was rejected, and
\* the browser stays logged out.
C7_Witness ==
    /\ resp.op = "verify" /\ resp.error = INVALID_LINK
    /\ resp.code \in DOMAIN auth_tokens
    /\ auth_tokens[resp.code].used
    /\ now < auth_tokens[resp.code].expires_at.t
    /\ \E c \in Clients : session[c].user_id = NULL

\* C8: of two verifications of the same valid token that run at the same
\* time, at most one ends with a logged-in session.
C8_AtMostOneLogin ==
    \A r1, r2 \in Slots :
        (/\ r1 # r2
         /\ req[r1].pc = "logged_in"
         /\ req[r2].pc = "logged_in") => req[r1].token # req[r2].token

\* C9: a verification succeeds exactly when the token is unused and the
\* time is strictly before the issuance time plus one hour, which is its
\* expires_at; a rejected verification, such as one at or after expires_at,
\* marks nothing used and sets no session key.
C9_ValidIffUnusedAndBeforeExpiry ==
    [][\A c \in Clients, tok \in TokenNames :
          (resp'.op = "verify" /\ Verify(c, tok)) =>
              LET ok == /\ tok \in DOMAIN auth_tokens
                        /\ ~auth_tokens[tok].used
                        /\ now < auth_tokens[tok].created_at + TOKEN_LIFETIME
              IN  /\ (resp'.error = "") <=> ok
                  /\ ok => auth_tokens[tok].expires_at.t
                               = auth_tokens[tok].created_at + TOKEN_LIFETIME
                  /\ ~ok => /\ auth_tokens' = auth_tokens
                            /\ session' = session]_vars

\* An unused token was presented at its expires_at and was rejected.
C9_Witness ==
    /\ resp.op = "verify" /\ resp.error = INVALID_LINK
    /\ resp.code \in DOMAIN auth_tokens
    /\ ~auth_tokens[resp.code].used
    /\ now = auth_tokens[resp.code].expires_at.t

\* C10: once an event is EVENT_CLOSED, every request leaves it EVENT_CLOSED
\* or deletes it.
C10_ClosedIsTerminal ==
    [][\A e \in DOMAIN events :
          events[e].status = EVENT_CLOSED =>
              (e \in DOMAIN events' => events'[e].status = EVENT_CLOSED)]_vars

\* The order REGISTRATION_OPEN < DRAW_COMPLETED < EVENT_CLOSED.
Rank(status) ==
    IF status = REGISTRATION_OPEN THEN 1
    ELSE IF status = DRAW_COMPLETED THEN 2 ELSE 3

\* C11: every change of an event's status is forward in the order
\* REGISTRATION_OPEN < DRAW_COMPLETED < EVENT_CLOSED, or is made by a
\* successful reopen and ends in REGISTRATION_OPEN; a new event starts in
\* REGISTRATION_OPEN, and DRAW_COMPLETED is entered only by a successful
\* draw.
C11_StatusForwardOrReopen ==
    [][\A e \in DOMAIN events' :
          IF e \notin DOMAIN events
          THEN events'[e].status = REGISTRATION_OPEN
          ELSE events'[e].status # events[e].status =>
                  /\ \/ Rank(events'[e].status) > Rank(events[e].status)
                     \/ /\ resp' = Answer("reopen", e, 200)
                        /\ events'[e].status = REGISTRATION_OPEN
                  /\ events'[e].status = DRAW_COMPLETED =>
                         resp' = Answer("run_draw", e, 200)]_vars

\* A reopen has taken an event whose draw was run back to
\* REGISTRATION_OPEN.
C11_Witness ==
    \E e \in DOMAIN events :
        /\ resp = Answer("reopen", e, 200)
        /\ events[e].status = REGISTRATION_OPEN
        /\ EventAssignments(e) # {}

\* C12: while an event is DRAW_COMPLETED or EVENT_CLOSED its set of
\* participants does not change: every register, join-own-event and
\* remove-participant request is rejected and leaves the participants and
\* the assignments as they were.
C12_ParticipantsFrozenAfterDraw ==
    [][\A e \in DOMAIN events :
          events[e].status \in {DRAW_COMPLETED, EVENT_CLOSED} =>
              /\ e \in DOMAIN events' => ParticipantIds(e)' = ParticipantIds(e)
              /\ (/\ resp'.op \in {"register", "join", "remove"}
                  /\ \/ \E m \in LateEmails, w \in BOOLEAN : Register(e, m, w)
                     \/ \E u \in Users : Join(u, e)
                     \/ \E u \in Users, p \in 1..MaxPid : Remove(u, e, p))
                 => /\ resp'.http # 200
                    /\ participants' = participants
                    /\ assignments' = assignments]_vars

\* After the draw the organizer asked to remove a participant and was
\* refused.
C12_Witness ==
    \E e \in DOMAIN events :
        /\ resp = Answer("remove", e, 400)
        /\ events[e].status = DRAW_COMPLETED
        /\ participant_count(e) = Cardinality(EventAssignments(e))

\* C13: after any sequence of register, join-own-event and
\* remove-participant requests, an event has at most max_participants
\* participants.
C13_CountWithinMax ==
    \A e \in DOMAIN events :
        participant_count(e) <= events[e].max_participants

\* C14: no two participants of the same event have the same email, for any
\* interleaving of register and join-own-event requests, two requests with
\* the same email at the same time included.
C14_EmailUniquePerEvent ==
    \A p, q \in DOMAIN participants :
        (/\ p # q
         /\ participants[p].event_id = participants[q].event_id)
            => participants[p].email # participants[q].email

\* C15: toggle_guessing, sent by the organizer, turns guessing_enabled from
\* false to true only when the status is DRAW_COMPLETED, and is otherwise
\* rejected with the flag still false; it turns the flag from true to false
\* in every status.  No other request turns the flag on.
C15_ToggleGuessing ==
    [][\A e \in DOMAIN events :
          /\ \A u \in Users :
                (/\ resp'.op = "toggle_guessing"
                 /\ ToggleGuessing(u, e)
                 /\ events[e].organizer_id = u) =>
                    IF events[e].guessing_enabled
                    THEN /\ ~events'[e].guessing_enabled
                         /\ resp'.http = 200
                    ELSE IF events[e].status = DRAW_COMPLETED
                    THEN /\ events'[e].guessing_enabled
                         /\ resp'.http = 200
                    ELSE /\ ~events'[e].guessing_enabled
                         /\ resp'.http = 400
          /\ (/\ e \in DOMAIN events'
              /\ ~events[e].guessing_enabled
              /\ events'[e].guessing_enabled) =>
                 /\ events[e].status = DRAW_COMPLETED
                 /\ resp' = Answer("toggle_guessing", e, 200)]_vars

\* Guessing was turned off in a closed event.
C15_Witness ==
    \E e \in DOMAIN events :
        /\ resp = Answer("toggle_guessing", e, 200)
        /\ ~events[e].guessing_enabled
        /\ events[e].status = EVENT_CLOSED

\* C16: delete_event removes an event only when its status is EVENT_CLOSED;
\* in REGISTRATION_OPEN and DRAW_COMPLETED the request is rejected and the
\* event, its participants and its assignments are unchanged; after a
\* successful delete no participant and no assignment of the event remains.
C16_DeleteOnlyClosed ==
    [][\A e \in DOMAIN events :
          /\ \A u \in Users :
                (resp'.op = "delete_event" /\ DeleteEvent(u, e)) =>
                    IF events[e].status = EVENT_CLOSED /\ events[e].organizer_id = u
                    THEN /\ resp'.http = 200
                         /\ e \notin DOMAIN events'
                         /\ \A p \in DOMAIN participants' :
                                participants'[p].event_id # e
                         /\ \A a \in assignments' : a.event_id # e
                    ELSE /\ resp'.http # 200
                         /\ events' = events
                         /\ participants' = participants
                         /\ assignments' = assignments
          /\ e \notin DOMAIN events' => events[e].status = EVENT_CLOSED]_vars

\* A closed event that had participants and assignments was deleted, and
\* the tables are empty.
C16_Witness ==
    \E e \in Codes :
        /\ resp = Answer("delete_event", e, 200)
        /\ e \notin DOMAIN events
        /\ nextPid >= 3
        /\ participants = <<>>
        /\ assignments = {}

\* The event a comment or a like is aimed at: that of the post, or that of
\* the participant whose hint or gift idea it is.
TargetEvent(post_id) ==
    IF post_id[1] = "post"
    THEN (CHOOSE post \in feed.posts : post.id = post_id[2]).event_id
    ELSE participants[post_id[2]].event_id

\* C17: whatever keys the session holds and whichever event is the target,
\* the participant a feed handler writes a post, a comment or a like for
\* belongs to the target event.
C17_ActorBelongsToTargetEvent ==
    /\ \A post \in feed.posts :
           /\ post.participant_id \in DOMAIN participants
           /\ participants[post.participant_id].event_id = post.event_id
    /\ \A comment \in feed.comments :
           /\ comment.participant_id \in DOMAIN participants
           /\ participants[comment.participant_id].event_id
                  = TargetEvent(comment.post_id)
    /\ \A like \in feed.likes :
           /\ like.participant_id \in DOMAIN participants
           /\ participants[like.participant_id].event_id
                  = TargetEvent(like.post_id)

\* The session of browser c1 names participant 1, of event E1, and a
\* comment on a hint of event E2 was written for participant 2.
C17_Witness ==
    /\ session["c1"].participant_id = 1
    /\ \E comment \in feed.comments :
           /\ comment.post_id[1] = "hint"
           /\ TargetEvent(comment.post_id) = "E2"
           /\ comment.participant_id = 2

\* The requests of browser c, with content, that aim at event e and resolve
\* the acting participant from all three session keys.
ResolvingRequest(c, e) ==
    \/ Feed(c, e, TRUE)
    \/ \E post \in feed.posts :
           post.event_id = e /\ CommentPost(c, post, TRUE)
    \/ \E t \in ParticipantIds(e) :
           \/ LikeHint(c, t)
           \/ LikeIdea(c, t)
           \/ CommentHint(c, t, TRUE)
           \/ CommentIdea(c, t, TRUE)

\* C18: when the session's participant id names a participant of another
\* event than the target, the request is not resolved to any participant
\* and writes nothing, also when the session's participant_email or
\* user_email matches a participant of the target event; at every call
\* site.
C18_ForeignIdIsUnresolved ==
    [][\A c \in Clients, e \in DOMAIN events :
          (/\ resp'.code = e
           /\ session[c].participant_id \in DOMAIN participants
           /\ participants[session[c].participant_id].event_id # e
           /\ ResolvingRequest(c, e))
              => /\ feed' = feed
                 /\ resp'.error \in {MUST_LOG_IN, INVALID_PARTICIPANT,
                                     "Not logged in"}]_vars

\* The participants a step wrote a post or a comment for, or toggled a like
\* for.
ActorsOfStep ==
    {r.participant_id : r \in feed'.posts \ feed.posts}
        \cup {r.participant_id : r \in feed'.comments \ feed.comments}
        \cup {r.participant_id : r \in (feed'.likes \ feed.likes)
                                           \cup (feed.likes \ feed'.likes)}

\* What the email keys of a session resolve to in event e: the participant
\* with the session's participant_email, else the one with its user_email.
ByEmailKeys(sess, e) ==
    IF sess.participant_email # NULL /\ ByEmail(sess.participant_email, e) # {}
    THEN ByEmail(sess.participant_email, e)
    ELSE IF sess.user_email # NULL THEN ByEmail(sess.user_email, e)
    ELSE {}

\* C19: the keys are tried in the order participant id, participant_email,
\* user_email, and the first that gives an existing participant of the
\* target event decides: when the session's participant id names no
\* existing participant and an email key matches a participant of the
\* target event, the request is accepted and acts for that participant; at
\* every call site, feed POST included.
C19_StaleIdFallsBackToEmail ==
    [][\A c \in Clients, e \in DOMAIN events :
          (/\ resp'.code = e
           /\ session[c].participant_id # NO_ID
           /\ session[c].participant_id \notin DOMAIN participants
           /\ ByEmailKeys(session[c], e) # {}
           /\ ResolvingRequest(c, e))
              => /\ resp'.error = ""
                 /\ ActorsOfStep # {}
                 /\ ActorsOfStep \subseteq ByEmailKeys(session[c], e)]_vars

\* C20: a draw over fewer than 2 participants always fails with the
\* insufficient-participants error, whatever min_participants and
\* allow_self_assignment are: it neither fails with the attempts-exhausted
\* error nor stores an assignment nor completes the draw.
C20_FewerThanTwoIsInsufficient ==
    /\ \A e \in DOMAIN events :
           (/\ resp.op = "create_secret_santa_assignments"
            /\ participant_count(e) < 2)
               => /\ resp.error = NEED_AT_LEAST
                  /\ EventAssignments(e) = {}
                  /\ events[e].status = REGISTRATION_OPEN
    /\ (legacy.pc \notin {"idle", "called"} /\ Len(legacy.emails) < 2)
           => legacy.pc = "raised" /\ legacy.raised = AT_LEAST_2

\* C21: for an event with exactly two participants A and B that does not
\* allow self-assignment and whose min_participants is at most 2, every
\* call of the draw returns successfully and stores exactly the two rows
\* A -> B and B -> A; no call ends with the attempts-exhausted error.
C21_TwoParticipantsAlwaysSwap ==
    \A e \in DOMAIN events :
        (/\ resp.op = "create_secret_santa_assignments"
         /\ participant_count(e) = 2
         /\ ~events[e].allow_self_assignment
         /\ events[e].min_participants <= 2)
            => /\ resp = Answer("create_secret_santa_assignments", e, 200)
               /\ {<<a.giver_id, a.receiver_id>> : a \in EventAssignments(e)}
                      = {<<1, 2>>, <<2, 1>>}
               /\ Cardinality(EventAssignments(e)) = 2

\* The rows of event e are a valid assignment set: one row per participant,
\* every participant giver of one row and receiver of one row, and no row
\* from a participant to itself unless the event allows it.
ValidAssignmentSet(e) ==
    /\ Cardinality(EventAssignments(e)) = participant_count(e)
    /\ \A a \in EventAssignments(e) :
           /\ a.giver_id \in ParticipantIds(e)
           /\ a.receiver_id \in ParticipantIds(e)
           /\ events[e].allow_self_assignment \/ a.giver_id # a.receiver_id
    /\ \A p \in ParticipantIds(e) :
           /\ Cardinality(GiverRows(e, p)) = 1
           /\ Cardinality(ReceiverRows(e, p)) = 1

\* C25: every call of the assignment procedure ends after at most its
\* fixed number of shuffles (100 in app_v2.py, 1000 in app.py): each pass
\* of the loop makes one more shuffle or leaves the loop, the loop is left
\* either with a stored valid assignment set or with an error, and when the
\* attempts are used up the error is raised and no mapping is stored or
\* returned.
C25_LoopEndsWithinAttempts ==
    [][/\ req["r1"].pc = "loop" =>
            \/ /\ req'["r1"].pc = "loop"
               /\ req'["r1"].attempt = req["r1"].attempt + 1
               /\ req'["r1"].attempt <= max_attempts
               /\ assignments' = assignments
            \/ /\ req'["r1"].pc = "returned"
               /\ req'["r1"].attempt <= max_attempts
               /\ resp'.http = 200
               /\ ValidAssignmentSet(req["r1"].code)'
            \/ /\ req'["r1"].pc = "raised"
               /\ req["r1"].attempt = max_attempts
               /\ resp'.error = COULD_NOT_CREATE
               /\ EventAssignments(req["r1"].code)' = {}
               /\ events' = events
       /\ legacy.pc = "loop" =>
            \/ /\ legacy'.pc = "loop"
               /\ legacy'.attempts = legacy.attempts + 1
               /\ legacy'.attempts <= legacy_max_attempts
               /\ legacy'.rows = <<>>
            \/ /\ legacy'.pc = "returned"
               /\ legacy.attempts < legacy_max_attempts
               /\ Len(legacy'.rows) = Len(legacy.emails)
               /\ \A i \in 1..Len(legacy'.rows) :
                      /\ legacy'.rows[i][1] = legacy.emails[i]
                      /\ legacy'.rows[i][1] # legacy'.rows[i][2]
            \/ /\ legacy'.pc = "raised"
               /\ legacy.attempts = legacy_max_attempts
               /\ legacy'.raised = COULD_NOT_CREATE
               /\ legacy'.rows = <<>>]_vars

\* The loop of app_v2.py ran out for three participants: every one of the
\* max_attempts shuffles was invalid.
C25_Witness ==
    /\ req["r1"].pc = "raised"
    /\ req["r1"].attempt = max_attempts
    /\ resp.error = COULD_NOT_CREATE
    /\ participant_count("E1") = 3

C22_GuessSetAtMostOnce ==
    [][/\ (resp'.op = "submit_guess" /\ resp'.http = 200) =>
              \E p \in DOMAIN participants :
                  /\ events[participants[p].event_id].guessing_enabled
                  /\ participants[p].guessed_secret_santa_id = NO_ID
                  /\ participants'[p].guessed_secret_santa_id # NO_ID
                  /\ \A q \in DOMAIN participants \ {p} :
                         participants'[q] = participants[q]
       /\ \A p \in DOMAIN participants \cap DOMAIN participants' :
              participants[p].guessed_secret_santa_id # NO_ID =>
                  participants'[p].guessed_secret_santa_id
                      = participants[p].guessed_secret_santa_id]_vars

\* Participant 1 has guessed participant 2, the event was redrawn, and a
\* further submit_guess was just refused while guessing is enabled.
C22_Witness ==
    /\ participants[1].guessed_secret_santa_id = 2
    /\ draws = 2
    /\ events["E1"].guessing_enabled
    /\ resp = Answer("submit_guess", "E1", 400)

\* C23: every stored guess of a participant P names a participant other
\* than P that belongs to the event of P (a submit_guess that names P
\* itself, a participant of another event or no participant at all stores
\* nothing).
C23_GuessNamesParticipantOfSameEvent ==
    \A p \in DOMAIN participants :
        participants[p].guessed_secret_santa_id # NO_ID =>
            /\ participants[p].guessed_secret_santa_id # p
            /\ participants[p].guessed_secret_santa_id \in DOMAIN participants
            /\ participants[participants[p].guessed_secret_santa_id].event_id
                   = participants[p].event_id

\* C24: a run-draw, reopen, close, toggle-guessing, delete or
\* remove-participant request of a logged-in user who is not the organizer
\* of the event is answered 403 and leaves the events (status, flags,
\* timestamps), the participants and the assignments as they were.
C24_NonOrganizerChangesNothing ==
    [][\A u \in Users, e \in Codes :
           (/\ resp'.code = e
            /\ e \in DOMAIN events
            /\ events[e].organizer_id # u
            /\ \/ RunDraw(u, e)
               \/ Reopen(u, e)
               \/ Close(u, e)
               \/ ToggleGuessing(u, e)
               \/ DeleteEvent(u, e)
               \/ \E p \in 1..MaxPid : Remove(u, e, p))
               => /\ resp'.http = 403
                  /\ events' = events
                  /\ participants' = participants
                  /\ assignments' = assignments]_vars

\* The close request of another user than the organizer was just refused
\* for an event whose draw is completed.
C24_Witness ==
    /\ resp = Answer("close", "E1", 403)
    /\ "E1" \in DOMAIN events
    /\ events["E1"].status = DRAW_COMPLETED
    /\ ~events["E1"].guessing_enabled
    /\ assignments # {}

\* C28: in every reachable state, the giver and the receiver of every
\* stored assignment are participants currently registered in the event of
\* the assignment, also after a reopen followed by remove-participant,
\* register or close requests.
C28_AssignmentsNameParticipants ==
    \A a \in assignments :
        /\ a.event_id \in DOMAIN events
        /\ a.giver_id \in ParticipantIds(a.event_id)
        /\ a.receiver_id \in ParticipantIds(a.event_id)

\* The event was reopened, a fourth participant registered, and the removal
\* of a participant of the first draw was just refused.
C28_Witness ==
    /\ resp = Answer("remove", "E1", 500)
    /\ "E1" \in DOMAIN events
    /\ events["E1"].status = REGISTRATION_OPEN
    /\ participant_count("E1") = 4
    /\ Cardinality(EventAssignments("E1")) = 3

\* C29: in every reachable state, an event whose guessing_enabled is true
\* has the status DRAW_COMPLETED or EVENT_CLOSED: guessing is never enabled
\* while registration is open.
C29_GuessingOnlyAfterDraw ==
    \A e \in DOMAIN events :
        events[e].guessing_enabled =>
            events[e].status \in {DRAW_COMPLETED, EVENT_CLOSED}

\* The pairs (target, participant) that have a like.
LikedPairs == {<<l.post_id, l.participant_id>> : l \in feed.likes}

\* A like request on target just toggled the like of one participant: the
\* pair is liked afterwards exactly if it was not before, every other pair
\* is as it was, and no pair has two rows.
Toggled(target) ==
    /\ \E p \in DOMAIN participants :
           LikedPairs' = IF <<target, p>> \in LikedPairs
                         THEN LikedPairs \ {<<target, p>>}
                         ELSE LikedPairs \cup {<<target, p>>}
    /\ Cardinality(feed'.likes) = Cardinality(LikedPairs')

\* C30: one request after the other, a like request (like_post, like_hint,
\* like_idea) of participant p on target t adds a like when p has none on
\* t and removes it otherwise.  There is never more than one like per pair
\* (p, t), and a second like request of p on t undoes the first.
C30_LikeToggles ==
    [][/\ resp'.http = 200 =>
            /\ \A c \in Clients, post \in PostRows :
                   (resp'.op = "like_post" /\ LikePost(c, post)) =>
                       /\ Toggled(<<"post", post.id>>)
                       /\ <<<<"post", post.id>>, session[c].participant_id>>
                              \in (LikedPairs \ LikedPairs')
                                      \cup (LikedPairs' \ LikedPairs)
            /\ \A c \in Clients, t \in 1..MaxPid :
                   (resp'.op = "like_hint" /\ LikeHint(c, t)) =>
                       Toggled(<<"hint", t>>)
            /\ \A c \in Clients, t \in 1..MaxPid :
                   (resp'.op = "like_idea" /\ LikeIdea(c, t)) =>
                       Toggled(<<"idea", t>>)
       /\ Cardinality(feed.likes) = Cardinality(LikedPairs)]_vars

\* A like request was just answered and no like is left: the request
\* removed the like that an earlier one had added.
C30_Witness ==
    /\ resp.op \in {"like_post", "like_hint", "like_idea"}
    /\ resp.http = 200
    /\ feed.likes = {}

\* C27: the user_id of a session becomes U only through the successful
\* verification of an unused, unexpired token that was issued to U; no other
\* request (register, participant dashboard, create-event) sets or changes
\* the user_id of a session.
C27_LoginOnlyByToken ==
    [][\A c \in Clients :
           (/\ session'[c].user_id # session[c].user_id
            /\ session'[c].user_id # NULL) =>
               /\ resp'.op = "verify"
               /\ resp'.error = ""
               /\ resp'.code \in DOMAIN auth_tokens
               /\ auth_tokens[resp'.code].user_id = session'[c].user_id
               /\ is_valid(auth_tokens[resp'.code])]_vars

====
